---------------------------- MODULE Spec2Model ----------------------------
(***************************************************************************)
(* A model of the ray tracer's intersection, shading and rendering core.   *)
(*                                                                         *)
(* Numbers.  The program computes in f64; the model computes in integers   *)
(* on a lattice.  Lengths (coordinates of points, the parameter t of a     *)
(* ray) are counted in units of the program's epsilon (EPSILON = 1), and   *)
(* the program's length 1.0 is UNIT of them.  Unit vectors, colours and    *)
(* material coefficients are whole numbers; refractive indices are counted *)
(* in tenths (VACUUM = 10 is the program's 1.0).  The scenes of the model  *)
(* lie on the z axis, where every square root and quotient of the program  *)
(* is exact on the lattice.                                                *)
(***************************************************************************)
EXTENDS Integers, Sequences, FiniteSets, TLC

\* ------------------------------------------------------------------ bounds
MaxLen == 3        \* longest enumerated intersection list
MaxT == 2          \* largest enumerated t of an intersection (the least is -1)
MaxHandle == 2     \* handles of the enumerated shapes are 1..MaxHandle

\* ------------------------------------------------------- program constants
EPSILON == 1       \* the 1.0e-10 offset of over_point and under_point
UNIT == 4          \* the program's length 1.0 (the radius of the unit sphere)
VACUUM == 10       \* the refractive index 1.0

VARIABLES
  hxs,      \* Intersections: the list a call of hit / prepare_computations is given
  hsel,     \* the index in hxs of the intersection handed to prepare_computations
  hout,     \* the list returned by hit
  hn,       \* the n1 and n2 of the Computations returned by prepare_computations
  hpc       \* position of the caller: "input", "hit", "prepared"

VARIABLES
  world     \* World: the light and the shapes

VARIABLES
  cray,     \* the ray of the outermost color_at call
  cdepth,   \* the remaining depth of the outermost color_at call
  stack,    \* the frames of the color_at calls in progress, innermost last
  cresult,  \* the colour the outermost color_at call returned
  cpc       \* position of its caller: "idle", "calling", "done", "panicked"

VARIABLES
  camera,   \* Camera: hsize, vsize, half_width, half_height, pixel_size, transform
  tasks,    \* the scanline tasks of render: line -> [state, out]
  finished, \* the lines whose task has ended, in the order they ended
  pixels,   \* the rows collected from the tasks
  canvas,   \* Canvas: the colours, row after row
  rpc       \* position of render: "idle", "parallel", "collected", "returned", "panicked"

VARIABLES
  shapes,   \* the shapes made so far, each with the Shape::new call it stems from
  calls     \* the number of Shape::new calls so far

VARIABLES
  mat,      \* Matrix: the matrix a Transform builder holds, or the one inverse is given
  mrecv,    \* the matrix of the receiver of the last builder call, after the call
  mops,     \* the builder calls that made mat, first call first
  marg,     \* the tuple the matrix is applied to
  mout,     \* what the last call on mat returned
  mpc       \* position of the caller: "idle", "built", "given", "inverted", "applied"

VARIABLES
  pcall,    \* a call of lighting or of pattern_at: the function and its arguments
  pout,     \* what the call returned
  ppc       \* position of the caller: "idle", "input", "done"

hitVars == <<hxs, hsel, hout, hn, hpc>>
shapeVars == <<shapes, calls>>
matrixVars == <<mat, mrecv, mops, marg, mout, mpc>>
colorVars == <<cray, cdepth, stack, cresult, cpc>>
renderVars == <<camera, tasks, finished, pixels, canvas, rpc>>
pureVars == <<pcall, pout, ppc>>
vars == <<hitVars, world, colorVars, renderVars, shapeVars, matrixVars, pureVars>>

\* ----------------------------------------------------------------- helpers
Reverse(s) == [k \in 1..Len(s) |-> s[Len(s) + 1 - k]]

RemoveAt(s, k) == [j \in 1..(Len(s) - 1) |-> IF j < k THEN s[j] ELSE s[j + 1]]

RECURSIVE SeqsUpTo(_, _)
SeqsUpTo(S, n) ==
  IF n = 0 THEN {<<>>}
  ELSE LET shorter == SeqsUpTo(S, n - 1)
       IN shorter \cup {Append(q, e) : q \in {p \in shorter : Len(p) = n - 1}, e \in S}

\* e handed to F as a value, computed once.
With(e, F(_)) == CHOOSE r \in {F(x) : x \in {e}} : TRUE

With2(e1, e2, F(_, _)) == CHOOSE r \in {F(x1, x2) : x1 \in {e1}, x2 \in {e2}} : TRUE

With3(e1, e2, e3, F(_, _, _)) ==
  CHOOSE r \in {F(x1, x2, x3) : x1 \in {e1}, x2 \in {e2}, x3 \in {e3}} : TRUE

With4(e1, e2, e3, e4, F(_, _, _, _)) ==
  CHOOSE r \in {F(x1, x2, x3, x4) : x1 \in {e1}, x2 \in {e2}, x3 \in {e3}, x4 \in {e4}} : TRUE

With5(e1, e2, e3, e4, e5, F(_, _, _, _, _)) ==
  CHOOSE r \in {F(x1, x2, x3, x4, x5) :
                  x1 \in {e1}, x2 \in {e2}, x3 \in {e3}, x4 \in {e4}, x5 \in {e5}} : TRUE

\* ------------------------------------------------------------------ shapes
\* A shape as an intersection carries it: its handle and the refractive
\* index of its material.
GlassOf(h, n) == [handle |-> h, material |-> [refractive_index |-> n]]

Intersection_new(t, object) == [t |-> t, object |-> object]

\* ---------------------------------------------------------- Intersections
\* hit_loop without the test that the candidate's t is non-negative.
RECURSIVE hit_loop_any_sign(_, _, _)
hit_loop_any_sign(intersections, k, cur) ==
  LET rest(next) == hit_loop_any_sign(intersections, k + 1, next)
      step(intersect) ==
        With(IF cur.t < 0 \/ intersect.t < cur.t
             THEN Intersection_new(intersect.t, intersect.object)
             ELSE cur,
             rest)
  IN IF k > Len(intersections) THEN cur
     ELSE With(intersections[k], step)

RECURSIVE hit_loop(_, _, _)
hit_loop(intersections, k, cur) ==
  LET rest(next) == hit_loop(intersections, k + 1, next)
      step(intersect) ==
        With(IF cur.t < 0 \/ (intersect.t < cur.t /\ intersect.t >= 0)
             THEN Intersection_new(intersect.t, intersect.object)
             ELSE cur,
             rest)
  IN IF k > Len(intersections) THEN cur
     ELSE With(intersections[k], step)

hit(intersections) ==
  LET found(h) == IF h.t >= 0 THEN <<Intersection_new(h.t, h.object)>> ELSE <<>>
  IN IF Len(intersections) = 0 THEN <<>>
     ELSE With(hit_loop(intersections, 1,
                        Intersection_new(intersections[1].t, intersections[1].object)),
               found)

\* The refractive index of the first container instead of the last.
first_index(containers) ==
  IF Len(containers) = 0 THEN VACUUM
  ELSE containers[1].material.refractive_index

\* The refractive index of the last container, 1.0 for an empty list.
last_index(containers) ==
  IF Len(containers) = 0 THEN VACUUM
  ELSE containers[Len(containers)].material.refractive_index

\* idx + 1 for the first container with the handle, 0 when there is none.
find_container(containers, handle) ==
  IF \E idx \in 1..Len(containers) : containers[idx].handle = handle
  THEN CHOOSE idx \in 1..Len(containers) :
         /\ containers[idx].handle = handle
         /\ \A j \in 1..(idx - 1) : containers[j].handle # handle
  ELSE 0

\* update_containers leaving through the innermost container, whichever
\* shape is left.
update_containers_pop(containers, object) ==
  LET place(index) ==
        IF index > 0 THEN RemoveAt(containers, Len(containers))
        ELSE Append(containers, object)
  IN With(find_container(containers, object.handle), place)

\* update_containers looking for a container equal to the object field by
\* field.
update_containers_structural(containers, object) ==
  IF \E idx \in 1..Len(containers) : containers[idx] = object
  THEN RemoveAt(containers, CHOOSE idx \in 1..Len(containers) :
                              /\ containers[idx] = object
                              /\ \A j \in 1..(idx - 1) : containers[j] # object)
  ELSE Append(containers, object)

update_containers(containers, object) ==
  LET place(index) ==
        IF index > 0 THEN RemoveAt(containers, index) ELSE Append(containers, object)
  IN With(find_container(containers, object.handle), place)

\* The loop of prepare_computations over xs from entry k on; the loop
\* recognises the hit by its t.
RECURSIVE container_walk(_, _, _, _, _, _)
container_walk(i, xs, k, containers, n1, n2) ==
  LET step(intersect, n1a, after) ==
        IF intersect.t = i.t
        THEN [n1 |-> n1a, n2 |-> last_index(after)]
        ELSE container_walk(i, xs, k + 1, after, n1a, n2)
      entry(intersect) ==
        With3(intersect,
              IF intersect.t = i.t THEN last_index(containers) ELSE n1,
              update_containers(containers, intersect.object),
              step)
  IN IF k > Len(xs) THEN [n1 |-> n1, n2 |-> n2]
     ELSE With(xs[k], entry)

refractive_indices(i, xs) == container_walk(i, xs, 1, <<>>, VACUUM, VACUUM)

\* The container list after the loop has taken the first k entries of xs.
RECURSIVE containers_after(_, _)
containers_after(xs, k) ==
  IF k = 0 THEN <<>>
  ELSE With2(containers_after(xs, k - 1), xs[k].object, update_containers)

\* PartialEq for Shape.
Shape_eq(a, b) == a.handle = b.handle

\* ------------------------------------------------------------------ tuples
Tuple_new(x, y, z, w) == [x |-> x, y |-> y, z |-> z, w |-> w]

point(x, y, z) == Tuple_new(x, y, z, 1)

vector(x, y, z) == Tuple_new(x, y, z, 0)

Tuple_add(a, p) == Tuple_new(a.x + p.x, a.y + p.y, a.z + p.z, a.w + p.w)

Tuple_sub(a, p) == Tuple_new(a.x - p.x, a.y - p.y, a.z - p.z, a.w - p.w)

Tuple_negate(a) == Tuple_new(0 - a.x, 0 - a.y, 0 - a.z, 0 - a.w)

Tuple_mult(a, k) == Tuple_new(a.x * k, a.y * k, a.z * k, a.w * k)

Tuple_div(a, k) == Tuple_new(a.x \div k, a.y \div k, a.z \div k, a.w \div k)

dot(a, b) == a.x * b.x + a.y * b.y + a.z * b.z + a.w * b.w

\* The square root, rounded down to the lattice.
sqrt(n) == CHOOSE r \in 0..n : r * r <= n /\ (r + 1) * (r + 1) > n

Tuple_mag(a) == sqrt(a.x * a.x + a.y * a.y + a.z * a.z + a.w * a.w)

\* A tuple whose length is not on the lattice keeps its length: the line it
\* spans and the sign of its dot products are the program's, and the t of a
\* ray along it is counted in units of that length.
Tuple_norm(a) ==
  LET divided(m) ==
        IF m > 0 /\ m * m = dot(a, a) /\ Tuple_mult(Tuple_div(a, m), m) = a
        THEN Tuple_div(a, m)
        ELSE a
  IN With(Tuple_mag(a), divided)

reflect(incidence, normal) ==
  With2(incidence, Tuple_mult(normal, 2 * dot(incidence, normal)), Tuple_sub)

\* ------------------------------------------------------------------ colors
Color_new(r, g, b) == [r |-> r, g |-> g, b |-> b]

Color_add(a, b) == Color_new(a.r + b.r, a.g + b.g, a.b + b.b)

Color_mult(c, k) == Color_new(c.r * k, c.g * k, c.b * k)

Color_dot(a, b) == Color_new(a.r * b.r, a.g * b.g, a.b * b.b)

BLACK == Color_new(0, 0, 0)

\* ---------------------------------------------------------------- matrices
\* The transforms of the model are the matrices translate(t) * scale(s,s,s),
\* kept as the pair of s and t.
Transform_of(s, t) == [s |-> s, t |-> t]

Matrix_identity == Transform_of(1, vector(0, 0, 0))

determinant(a) == a.s * a.s * a.s

invertible(a) == determinant(a) # 0

\* The outcome of a call that panics.
Panic == [panic |-> TRUE]

\* inverse(a) is the matrix p |-> (p - t) / s.  The model keeps s as the
\* denominator den and computes den times every tuple the inverse is applied
\* to, so that object space stays on the lattice.
inverse(a) ==
  IF ~invertible(a) THEN Panic
  ELSE [panic |-> FALSE, den |-> a.s, t |-> Tuple_negate(a.t)]

\* den times (inverse matrix * b).
mult_4x4_by_1d(inv, b) ==
  Tuple_new(b.x + inv.t.x * b.w, b.y + inv.t.y * b.w, b.z + inv.t.z * b.w, inv.den * b.w)

\* den times (transpose of the inverse matrix * b): the translation reaches
\* only w.
mult_transposed_4x4_by_1d(inv, b) ==
  Tuple_new(b.x, b.y, b.z, inv.t.x * b.x + inv.t.y * b.y + inv.t.z * b.z + inv.den * b.w)

\* -------------------------------------------------------------------- rays
Ray_new(origin, direction) == [origin |-> origin, direction |-> direction]

position(ray, time) == With2(ray.origin, Tuple_mult(ray.direction, time), Tuple_add)

Ray_transform(ray, inv) ==
  Ray_new(mult_4x4_by_1d(inv, ray.origin), mult_4x4_by_1d(inv, ray.direction))

\* --------------------------------------------------- materials and shapes
NoPattern == [some |-> FALSE]

Pattern_new(pattern_type, color1, color2, transform) ==
  [some |-> TRUE, pattern_type |-> pattern_type, a |-> color1, b |-> color2,
   transform |-> transform]

Material_of(color, ambient, diffuse, specular, reflectiveness, transparency, refractive_index, pattern) ==
  [color |-> color, ambient |-> ambient, diffuse |-> diffuse, specular |-> specular,
   shininess |-> 1, reflectiveness |-> reflectiveness, transparency |-> transparency,
   refractive_index |-> refractive_index, pattern |-> pattern]

Shape_of(shape_type, handle, transform, material) ==
  [shape_type |-> shape_type, handle |-> handle, transform |-> transform,
   material |-> material]

NoIntersections == [panic |-> FALSE, intersections |-> <<>>]

\* The sphere's quadratic on den times the local ray: a, b and c are all
\* den * den times the program's, which leaves the roots unchanged; the
\* radius 1.0 of the unit sphere is den * UNIT.
Sphere_intersects(object, ray, den) ==
  LET ordered(t1, t2) ==
        [panic |-> FALSE,
         intersections |->
           IF t2 < t1
           THEN <<Intersection_new(t2, object), Intersection_new(t1, object)>>
           ELSE <<Intersection_new(t1, object), Intersection_new(t2, object)>>]
      roots(a, b, dsqrt) ==
        With2(((0 - b - dsqrt) \div 2) \div a, ((0 - b + dsqrt) \div 2) \div a, ordered)
      solve(a, b, discriminant) ==
        IF discriminant < 0 THEN NoIntersections
        ELSE With3(a, b, sqrt(discriminant), roots)
      quadratic(a, b, c) == With3(a, b, b * b - 4 * a * c, solve)
      from(sphere_to_ray) ==
        With3(dot(ray.direction, ray.direction),
              2 * dot(ray.direction, sphere_to_ray),
              dot(sphere_to_ray, sphere_to_ray) - (den * UNIT) * (den * UNIT),
              quadratic)
  IN With(Tuple_sub(ray.origin, Tuple_new(0, 0, 0, ray.origin.w)), from)

Plane_intersects(object, ray) ==
  IF ray.direction.y < EPSILON /\ 0 - ray.direction.y < EPSILON THEN NoIntersections
  ELSE [panic |-> FALSE,
        intersections |-> <<Intersection_new((0 - ray.origin.y) \div ray.direction.y, object)>>]

Shape_intersects(shape, ray) ==
  LET match(i, local_ray) ==
        CASE shape.shape_type = "Sphere" -> Sphere_intersects(shape, local_ray, i.den)
          [] shape.shape_type = "Plane" -> Plane_intersects(shape, local_ray)
          [] shape.shape_type = "Test" -> NoIntersections
      local(i) ==
        IF i.panic THEN Panic
        ELSE With2(i, Ray_transform(ray, i), match)
  IN With(inverse(shape.transform), local)

Sphere_normal_at(object, object_point) ==
  With(Tuple_sub(object_point, Tuple_new(0, 0, 0, object_point.w)), Tuple_norm)

normal_at(shape, p) ==
  LET normalised(world_normal) ==
        [panic |-> FALSE, normal |-> Tuple_norm([world_normal EXCEPT !.w = 0])]
      to_world(inverse_transform, object_normal) ==
        With(mult_transposed_4x4_by_1d(inverse_transform, object_normal), normalised)
      match(inverse_transform, object_point) ==
        With2(inverse_transform,
              CASE shape.shape_type = "Sphere" -> Sphere_normal_at(shape, object_point)
                [] shape.shape_type = "Plane" -> vector(0, 1, 0)
                [] shape.shape_type = "Test" -> Tuple_norm(vector(1, 1, 1)),
              to_world)
      local(inverse_transform) ==
        IF inverse_transform.panic THEN Panic
        ELSE With2(inverse_transform, mult_4x4_by_1d(inverse_transform, p), match)
  IN With(inverse(shape.transform), local)

\* ------------------------------------------------------------ Computations
\* prepare_computations keeping the normal as normal_at gave it.
facing_normal_kept(normalv, inside) == normalv

\* The normal prepare_computations stores.
facing_normal(normalv, inside) == IF inside THEN Tuple_negate(normalv) ELSE normalv

prepare_computations(i, r, xs) ==
  LET computations(pt, eyev, normalv, inside, nn) ==
        [panic |-> FALSE,
         t |-> i.t,
         object |-> i.object,
         point |-> pt,
         eyev |-> eyev,
         normalv |-> normalv,
         reflectv |-> reflect(r.direction, normalv),
         inside |-> inside,
         over_point |-> Tuple_add(pt, Tuple_mult(normalv, EPSILON)),
         under_point |-> Tuple_sub(pt, Tuple_mult(normalv, EPSILON)),
         n1 |-> nn.n1,
         n2 |-> nn.n2]
      facing(pt, eyev, normalv, inside) ==
        With5(pt, eyev, facing_normal(normalv, inside), inside,
              refractive_indices(i, xs), computations)
      frame(pt, n, eyev) ==
        IF n.panic THEN Panic
        ELSE With4(pt, eyev, n.normal, dot(n.normal, eyev) < 0, facing)
      at(pt) == With3(pt, normal_at(i.object, pt), Tuple_negate(r.direction), frame)
  IN With(position(r, i.t), at)


\* ---------------------------------------------------------------- patterns
\* The tuple handed to pattern_at is point.w times the pattern-space point,
\* so the program's 1.0 is UNIT * point.w.
Stripe_pattern_at(pattern, pt) ==
  IF pt.x >= 0
  THEN IF pt.x % (2 * UNIT * pt.w) >= UNIT * pt.w THEN pattern.b ELSE pattern.a
  ELSE IF (0 - pt.x) % (2 * UNIT * pt.w) > UNIT * pt.w THEN pattern.a ELSE pattern.b

\* f64::round on the coordinate n / d, d > 0: to the nearest whole number,
\* halves away from zero.
round(n, d) ==
  IF n >= 0 THEN (2 * n + d) \div (2 * d) ELSE 0 - ((2 * (0 - n) + d) \div (2 * d))

\* Each coordinate is rounded and then floored; the sum is a whole number,
\* so its remainder by 2 is below 1e-9 in size exactly when the sum is even.
Checker_pattern_at(pattern, pt) ==
  IF (round(pt.x, UNIT * pt.w) + round(pt.y, UNIT * pt.w) + round(pt.z, UNIT * pt.w)) % 2 = 0
  THEN pattern.a
  ELSE pattern.b

\* Of the pattern types, Checker and Stripe are modelled.
pattern_at(pattern, pt) ==
  IF pattern.pattern_type = "Checker" THEN Checker_pattern_at(pattern, pt)
  ELSE Stripe_pattern_at(pattern, pt)

pattern_at_object(pattern, object, pt) ==
  LET in_pattern(i_pattern_tx, object_point) ==
        IF i_pattern_tx.panic THEN Panic
        ELSE [panic |-> FALSE,
              color |-> pattern_at(pattern, mult_4x4_by_1d(i_pattern_tx, object_point))]
      in_object(i_object_tx) ==
        IF i_object_tx.panic THEN Panic
        ELSE With2(inverse(pattern.transform), mult_4x4_by_1d(i_object_tx, pt), in_pattern)
  IN With(inverse(object.transform), in_object)

\* ------------------------------------------------------------------- light
NoLight == [some |-> FALSE]

PointLight_new(pos, intensity) == [some |-> TRUE, position |-> pos, intensity |-> intensity]

RECURSIVE powf(_, _)
powf(base, e) == IF e = 0 THEN 1 ELSE base * powf(base, e - 1)

\* lighting that leaves the diffuse term in where the point is in shadow.
lighting_sum_dimmed(ambient, diffuse, specular, is_in_shadow) ==
  IF is_in_shadow THEN Color_add(ambient, diffuse)
  ELSE Color_add(Color_add(ambient, diffuse), specular)

\* The colour lighting returns for its three terms.
lighting_sum(ambient, diffuse, specular, is_in_shadow) ==
  IF is_in_shadow THEN ambient ELSE Color_add(Color_add(ambient, diffuse), specular)

lighting(m, o, l, pos, eyev, normalv, is_in_shadow) ==
  LET sum(ambient, diffuse, specular) ==
        [panic |-> FALSE,
         color |-> lighting_sum(ambient, diffuse, specular, is_in_shadow)]
      lit(effective_color, light_dot_normal, reflect_dot_eye) ==
        With3(Color_mult(effective_color, m.ambient),
              IF light_dot_normal < 0 THEN BLACK
              ELSE Color_mult(effective_color, m.diffuse * light_dot_normal),
              IF light_dot_normal < 0 \/ reflect_dot_eye <= 0 THEN BLACK
              ELSE Color_mult(l.intensity, m.specular * powf(reflect_dot_eye, m.shininess)),
              sum)
      reflected(effective_color, lightv, reflectv) ==
        With3(effective_color, dot(lightv, normalv), dot(reflectv, eyev), lit)
      toward(effective_color, lightv, neg_lightv) ==
        With3(effective_color, lightv, reflect(neg_lightv, normalv), reflected)
      from(effective_color, lightv) ==
        With3(effective_color, lightv, Tuple_negate(lightv), toward)
      to_light(effective_color, v) == With2(effective_color, Tuple_norm(v), from)
      coloured(base) ==
        IF base.panic THEN Panic
        ELSE With2(Color_dot(base.color, l.intensity), Tuple_sub(l.position, pos), to_light)
  IN With(IF m.pattern.some THEN pattern_at_object(m.pattern, o, pos)
          ELSE [panic |-> FALSE, color |-> m.color],
          coloured)

\* ------------------------------------------------------------------- World
World_of(light, objects) == [light |-> light, objects |-> objects]

\* The place of e in a list sorted by t: behind every entry whose t is not
\* greater (sort_by is stable).
RECURSIVE insert_by_t(_, _)
insert_by_t(sorted, e) ==
  LET before(front) == Append(insert_by_t(front, e), sorted[Len(sorted)])
  IN IF sorted = <<>> THEN <<e>>
     ELSE IF sorted[Len(sorted)].t <= e.t THEN Append(sorted, e)
          ELSE With(SubSeq(sorted, 1, Len(sorted) - 1), before)

\* sort_by leaving the list as it was collected.
sort_by_t_unsorted(list) == list

RECURSIVE sort_by_t(_)
sort_by_t(list) ==
  IF list = <<>> THEN <<>>
  ELSE With2(sort_by_t(SubSeq(list, 1, Len(list) - 1)), list[Len(list)], insert_by_t)

RECURSIVE flatten(_)
flatten(lists) ==
  IF lists = <<>> THEN <<>> ELSE Head(lists) \o With(Tail(lists), flatten)

intersect_world(w, r) ==
  LET collected(each) ==
        IF \E k \in 1..Len(each) : each[k].panic THEN Panic
        ELSE [panic |-> FALSE,
              intersections |->
                With(With([k \in 1..Len(each) |-> each[k].intersections], flatten),
                     sort_by_t)]
  IN With([k \in 1..Len(w.objects) |-> Shape_intersects(w.objects[k], r)], collected)

\* is_shadowed without the comparison with the distance to the light.
is_shadowed_any_hit(w, pt) ==
  LET nearest(h, distance) == [panic |-> FALSE, shadowed |-> Len(h) > 0]
      blocked(intersections, distance) ==
        IF intersections.panic THEN Panic
        ELSE With2(hit(intersections.intersections), distance, nearest)
      cast(r, distance) == With2(intersect_world(w, r), distance, blocked)
      along(direction, distance) == With2(Ray_new(pt, direction), distance, cast)
      toward(v) == With2(Tuple_norm(v), Tuple_mag(v), along)
  IN IF ~w.light.some THEN Panic
     ELSE With(Tuple_sub(w.light.position, pt), toward)

\* is_shadowed answering "not shadowed" where there is no light to unwrap.
is_shadowed_unlit(w, pt) ==
  LET nearest(h, distance) ==
        [panic |-> FALSE, shadowed |-> Len(h) > 0 /\ h[1].t < distance]
      blocked(intersections, distance) ==
        IF intersections.panic THEN Panic
        ELSE With2(hit(intersections.intersections), distance, nearest)
      cast(r, distance) == With2(intersect_world(w, r), distance, blocked)
      along(direction, distance) == With2(Ray_new(pt, direction), distance, cast)
      toward(v) == With2(Tuple_norm(v), Tuple_mag(v), along)
  IN IF ~w.light.some THEN [panic |-> FALSE, shadowed |-> FALSE]
     ELSE With(Tuple_sub(w.light.position, pt), toward)

is_shadowed(w, pt) ==
  LET nearest(h, distance) ==
        [panic |-> FALSE, shadowed |-> Len(h) > 0 /\ h[1].t < distance]
      blocked(intersections, distance) ==
        IF intersections.panic THEN Panic
        ELSE With2(hit(intersections.intersections), distance, nearest)
      cast(r, distance) == With2(intersect_world(w, r), distance, blocked)
      along(direction, distance) == With2(Ray_new(pt, direction), distance, cast)
      toward(v) == With2(Tuple_norm(v), Tuple_mag(v), along)
  IN IF ~w.light.some THEN Panic
     ELSE With(Tuple_sub(w.light.position, pt), toward)

\* The ray refracted_color casts; n_ratio = n1 / n2 is kept as the pair, so
\* sin2_t, cos_t and the direction are computed n2 (or n2 * n2) times over
\* and the direction is divided by n2 at the end.
refracted_ray(comps) ==
  LET bent(cos_i, cos_t) ==
        [total |-> FALSE,
         ray |-> Ray_new(comps.under_point,
                         Tuple_div(Tuple_sub(Tuple_mult(comps.normalv,
                                                        comps.n1 * cos_i - cos_t),
                                             Tuple_mult(comps.eyev, comps.n1)),
                                   comps.n2))]
      snell(cos_i, sin2_t) ==
        IF sin2_t > comps.n2 * comps.n2 THEN [total |-> TRUE]
        ELSE With2(cos_i, sqrt(comps.n2 * comps.n2 - sin2_t), bent)
      incident(cos_i) == With2(cos_i, comps.n1 * comps.n1 * (1 - cos_i * cos_i), snell)
  IN With(dot(comps.eyev, comps.normalv), incident)

black == [panic |-> FALSE, color |-> BLACK]

\* reflected_color without the test of the remaining depth.
reflected_is_black_at_any_depth(comps, remaining) ==
  comps.object.material.reflectiveness = 0

\* refracted_color without the test of the remaining depth.
refracted_is_black_at_any_depth(comps, remaining) ==
  comps.object.material.transparency = 0

\* The early returns of reflected_color and refracted_color.
reflected_is_black(comps, remaining) ==
  remaining = 0 \/ comps.object.material.reflectiveness = 0

refracted_is_black(comps, remaining) ==
  remaining = 0 \/ comps.object.material.transparency = 0

reflected_ray(comps) == Ray_new(comps.over_point, comps.reflectv)

\* reflected_color handing on the colour of the reflected ray as it is.
reflected_unscaled(color, comps) == color

\* The colour reflected_color returns for the colour of the reflected ray.
reflected_scaled(color, comps) == Color_mult(color, comps.object.material.reflectiveness)

\* color_at unwrapping the hit: a ray without a hit is an error.
color_at_hit_unwrap(w, r) ==
  LET prepared(comps) ==
        IF comps.panic THEN [panic |-> TRUE, found |-> FALSE]
        ELSE [panic |-> FALSE, found |-> TRUE, comps |-> comps]
      nearest(h) ==
        IF Len(h) > 0 /\ h[1].t >= 0
        THEN With(prepare_computations(h[1], r, h), prepared)
        ELSE [panic |-> TRUE, found |-> FALSE]
      among(xs) ==
        IF xs.panic THEN [panic |-> TRUE, found |-> FALSE]
        ELSE IF Len(xs.intersections) > 0 THEN With(hit(xs.intersections), nearest)
             ELSE [panic |-> TRUE, found |-> FALSE]
  IN With(intersect_world(w, r), among)

\* What color_at finds before it shades: [panic, found, comps].  The list
\* handed to prepare_computations is the list hit returned.
color_at_hit(w, r) ==
  LET prepared(comps) ==
        IF comps.panic THEN [panic |-> TRUE, found |-> FALSE]
        ELSE [panic |-> FALSE, found |-> TRUE, comps |-> comps]
      nearest(h) ==
        IF Len(h) > 0 /\ h[1].t >= 0
        THEN With(prepare_computations(h[1], r, h), prepared)
        ELSE [panic |-> FALSE, found |-> FALSE]
      among(xs) ==
        IF xs.panic THEN [panic |-> TRUE, found |-> FALSE]
        ELSE IF Len(xs.intersections) > 0 THEN With(hit(xs.intersections), nearest)
             ELSE [panic |-> FALSE, found |-> FALSE]
  IN With(intersect_world(w, r), among)

\* The surface colour of shade_hit: is_shadowed, then lighting with the
\* light unwrapped.
surface_color(w, comps) ==
  LET lit(is_in_shadow) ==
        IF is_in_shadow.panic \/ ~w.light.some THEN Panic
        ELSE lighting(comps.object.material, comps.object, w.light, comps.point,
                      comps.eyev, comps.normalv, is_in_shadow.shadowed)
  IN With(is_shadowed(w, comps.over_point), lit)

\* shade_hit holding every channel of its sum at 1.
shade_hit_sum_clamped(surface, reflected, refracted) ==
  LET clamp(c) == IF c > 1 THEN 1 ELSE c
  IN Color_new(clamp(surface.r + reflected.r + refracted.r),
               clamp(surface.g + reflected.g + refracted.g),
               clamp(surface.b + reflected.b + refracted.b))

\* The colour shade_hit returns for its three colours.
shade_hit_sum(surface, reflected, refracted) ==
  Color_add(Color_add(surface, reflected), refracted)

RECURSIVE color_at(_, _, _)
RECURSIVE shade_hit(_, _, _)
RECURSIVE reflected_color(_, _, _)
RECURSIVE refracted_color(_, _, _)

color_at(w, r, remaining) ==
  LET shaded(c) ==
        IF c.panic THEN Panic
        ELSE IF c.found THEN shade_hit(w, c.comps, remaining)
             ELSE black
  IN With(color_at_hit(w, r), shaded)

shade_hit(w, comps, remaining) ==
  LET sum(surface, reflected, refracted) ==
        IF surface.panic \/ reflected.panic \/ refracted.panic THEN Panic
        ELSE [panic |-> FALSE,
              color |-> shade_hit_sum(surface.color, reflected.color, refracted.color)]
  IN With3(surface_color(w, comps), reflected_color(w, comps, remaining),
           refracted_color(w, comps, remaining), sum)

refracted_color(w, comps, remaining) ==
  LET scaled(color) ==
        IF color.panic THEN Panic
        ELSE [panic |-> FALSE,
              color |-> Color_mult(color.color, comps.object.material.transparency)]
      cast(rr) ==
        IF rr.total THEN black
        ELSE With(color_at(w, rr.ray, remaining - 1), scaled)
  IN IF refracted_is_black(comps, remaining) THEN black
     ELSE With(refracted_ray(comps), cast)

reflected_color(w, comps, remaining) ==
  LET scaled(color) ==
        IF color.panic THEN Panic
        ELSE [panic |-> FALSE, color |-> reflected_scaled(color.color, comps)]
  IN IF reflected_is_black(comps, remaining) THEN black
     ELSE With(color_at(w, reflected_ray(comps), remaining - 1), scaled)


\* ------------------------------------------------- calls of hit / prepare
Ts == (0 - 1)..MaxT

Glasses == {GlassOf(h, 5 * (h + 2)) : h \in 1..MaxHandle} \cup {GlassOf(1, 30)}

Entries == {Intersection_new(t, o) : t \in Ts, o \in Glasses}

\* The list of the test finding_n1_and_n2_and_various_intersections, t in
\* quarters.
TestXs ==
  LET a == GlassOf(11, 15)
      b == GlassOf(12, 20)
      c == GlassOf(13, 25)
  IN << Intersection_new(8, a), Intersection_new(11, b), Intersection_new(13, c),
        Intersection_new(19, b), Intersection_new(21, c), Intersection_new(24, a) >>

\* A shape, a second shape with the same fields, a clone of the first whose
\* material was changed after the first was entered, and the second again.
CopyXs ==
  LET a == GlassOf(21, 15)
      b == GlassOf(22, 15)
      changed == [a EXCEPT !.material.refractive_index = 30]
  IN << Intersection_new(1, a), Intersection_new(2, b), Intersection_new(3, changed),
        Intersection_new(4, b) >>

\* Shape::glass_sphere with its transform and refractive index set.
glass_sphere(handle, transform, refractive_index) ==
  Shape_of("Sphere", handle, transform,
           Material_of(Color_new(1, 1, 1), 1, 1, 1, 0, 1, refractive_index, NoPattern))

\* The ray of the test, from z = -4.0 along the z axis.
AxisRay == Ray_new(point(0, 0, 0 - 4 * UNIT), vector(0, 0, 1))

\* The spheres of the test: A of radius 2 at the origin, B and C of radius 1
\* centred 0.25 before and behind it.
OverlappingSpheres ==
  World_of(NoLight,
           << glass_sphere(31, Transform_of(2, vector(0, 0, 0)), 15),
              glass_sphere(32, Transform_of(1, vector(0, 0, 0 - UNIT \div 4)), 20),
              glass_sphere(33, Transform_of(1, vector(0, 0, UNIT \div 4)), 25) >>)

\* Three spheres of radius 1, 2 and 3 at the origin.
ConcentricSpheres ==
  World_of(NoLight,
           << glass_sphere(41, Transform_of(1, vector(0, 0, 0)), 15),
              glass_sphere(42, Transform_of(2, vector(0, 0, 0)), 20),
              glass_sphere(43, Transform_of(3, vector(0, 0, 0)), 25) >>)

OverlappingXs == intersect_world(OverlappingSpheres, AxisRay).intersections

ConcentricXs == intersect_world(ConcentricSpheres, AxisRay).intersections

NoN == [n1 |-> 0, n2 |-> 0]

IdleHit ==
  /\ hxs = <<>>
  /\ hsel = 0
  /\ hout = <<>>
  /\ hn = [n1 |-> 0, n2 |-> 0]
  /\ hpc = "idle"

NoWorld == [light |-> [some |-> FALSE], objects |-> <<>>]

IdleColor ==
  /\ cray = [origin |-> [x |-> 0, y |-> 0, z |-> 0, w |-> 1],
             direction |-> [x |-> 0, y |-> 0, z |-> 1, w |-> 0]]
  /\ cdepth = 0
  /\ stack = <<>>
  /\ cresult = [r |-> 0, g |-> 0, b |-> 0]
  /\ cpc = "idle"

IdleRender ==
  /\ camera = [hsize |-> 0, vsize |-> 0]
  /\ tasks = <<>>
  /\ finished = <<>>
  /\ pixels = <<>>
  /\ canvas = <<>>
  /\ rpc = "idle"

IdleShape ==
  /\ shapes = <<>>
  /\ calls = 0

IdleMatrix ==
  /\ mat = [rows |-> 0, cols |-> 0, data |-> <<>>]
  /\ mrecv = [rows |-> 0, cols |-> 0, data |-> <<>>]
  /\ mops = <<>>
  /\ marg = [x |-> 0, y |-> 0, z |-> 0, w |-> 0]
  /\ mout = [panic |-> FALSE]
  /\ mpc = "idle"

IdlePure ==
  /\ pcall = [name |-> "none"]
  /\ pout = [panic |-> FALSE]
  /\ ppc = "idle"

InitHit ==
  /\ IdlePure
  /\ world = NoWorld
  /\ IdleShape
  /\ IdleMatrix
  /\ IdleColor
  /\ IdleRender
  /\ hxs \in SeqsUpTo(Entries, MaxLen) \cup {TestXs, CopyXs, OverlappingXs, ConcentricXs}
  /\ hsel = 0
  /\ hout = <<>>
  /\ hn = NoN
  /\ hpc = "input"

HitCall ==
  /\ hpc = "input"
  /\ hout' = hit(hxs)
  /\ hpc' = "hit"
  /\ UNCHANGED <<hxs, hsel, hn>>
  /\ UNCHANGED <<world, colorVars, renderVars, shapeVars, matrixVars, pureVars>>

PrepareCall ==
  /\ hpc = "input"
  /\ \E k \in 1..Len(hxs) :
       /\ hsel' = k
       /\ hn' = refractive_indices(hxs[k], hxs)
  /\ hpc' = "prepared"
  /\ UNCHANGED <<hxs, hout>>
  /\ UNCHANGED <<world, colorVars, renderVars, shapeVars, matrixVars, pureVars>>

NextHit == HitCall \/ PrepareCall

SpecHit == InitHit /\ [][NextHit]_vars

\* ------------------------------------------------------------ claims: hit
NonNegative(xs) == {k \in 1..Len(xs) : xs[k].t >= 0}

\* C5: hit returns one intersection whose t is the least non-negative t of
\* the list, the empty list when the list is empty or all its t are
\* negative, and leaves the list it was called on unchanged.
C5_HitIsLeastNonNegative ==
  [][ (hpc = "input" /\ hpc' = "hit") =>
        /\ hxs' = hxs
        /\ IF NonNegative(hxs) = {}
           THEN hout' = <<>>
           ELSE /\ Len(hout') = 1
                /\ hout'[1].t >= 0
                /\ \E k \in NonNegative(hxs) : hout'[1].t = hxs[k].t
                /\ \A k \in NonNegative(hxs) : hout'[1].t <= hxs[k].t ]_vars

\* A hit taken from a list that starts with a negative t and holds two
\* different non-negative t, the larger first.
C5_Witness ==
  /\ hpc = "hit"
  /\ Len(hxs) = 3
  /\ hxs[1].t < 0
  /\ hxs[2].t > hxs[3].t
  /\ hxs[3].t >= 0
  /\ Len(hout) = 1
  /\ hout[1].t = hxs[3].t

SameSelection(a, b) ==
  /\ Len(a) = Len(b)
  /\ \A k \in 1..Len(a) : a[k].t = b[k].t /\ a[k].object.handle = b[k].object.handle

\* C6: hit selects the same intersection (same t, same handle) from a list
\* and from its reverse.
C6_HitOrderIndependent ==
  hpc = "hit" => SameSelection(hout, hit(Reverse(hxs)))

\* -------------------------------------------- claims: prepare_computations
\* The containers after the first j entries of xs, each entry either leaving
\* the shape it names or entering it.
RECURSIVE ContainersAfter(_, _)
ContainersAfter(xs, j) ==
  IF j = 0 THEN <<>>
  ELSE LET before == ContainersAfter(xs, j - 1)
           o == xs[j].object
       IN IF \E c \in 1..Len(before) : before[c].handle = o.handle
          THEN SelectSeq(before, LAMBDA c : c.handle # o.handle)
          ELSE before \o <<o>>

IndexOfLast(containers) ==
  IF containers = <<>> THEN VACUUM
  ELSE containers[Len(containers)].material.refractive_index

\* The entry the walk treats as the hit: the first one with the hit's t.
HitEntry(xs, i) == CHOOSE k \in 1..Len(xs) : xs[k].t = i.t /\ \A j \in 1..(k - 1) : xs[j].t # i.t

TestPairs == << <<10, 15>>, <<15, 20>>, <<20, 25>>, <<25, 25>>, <<25, 15>>, <<15, 10>> >>

Handles(xs) == {xs[j].object.handle : j \in 1..Len(xs)}

\* How many of the first k entries of xs name the handle.
Visits(xs, k, handle) == Cardinality({j \in 1..k : xs[j].object.handle = handle})

\* C14: shapes are equal iff their handles are, whatever their other fields:
\* after every prefix of the walk the container list holds a handle once when
\* an odd number of entries named it and not at all otherwise, so an entry
\* whose shape has the handle of a container with another material leaves
\* that container and an entry with another handle and the same fields
\* enters; n2 is the index of the last shape of that list.
C14_IdentityByHandle ==
  hpc = "prepared" =>
    /\ \A j, k \in 1..Len(hxs) :
         Shape_eq(hxs[j].object, hxs[k].object) <=> hxs[j].object.handle = hxs[k].object.handle
    /\ \A k \in 1..Len(hxs), handle \in Handles(hxs) :
         Cardinality({c \in 1..Len(containers_after(hxs, k)) :
                        containers_after(hxs, k)[c].handle = handle})
           = Visits(hxs, k, handle) % 2
    /\ hn.n2 = last_index(containers_after(hxs, HitEntry(hxs, hxs[hsel])))

\* The changed clone of the first shape has left it: the second shape, with
\* the first one's fields and another handle, is the only container.
C14_Witness ==
  /\ hpc = "prepared"
  /\ hxs = CopyXs
  /\ hsel = 3
  /\ hxs[1].object # hxs[3].object
  /\ [hxs[1].object EXCEPT !.handle = 22] = hxs[2].object
  /\ Len(containers_after(hxs, 3)) = 1
  /\ containers_after(hxs, 3)[1].handle = 22
  /\ hn = [n1 |-> 15, n2 |-> 15]

\* The pairs of spheres entered largest first and left smallest first.
NestedPairs == << <<10, 25>>, <<25, 20>>, <<20, 15>>, <<15, 20>>, <<20, 25>>, <<25, 10>> >>

PairsAre(pairs) ==
  /\ Len(hxs) = 6
  /\ \A k \in 1..5 : hxs[k].t < hxs[k + 1].t
  /\ hn = [n1 |-> pairs[hsel][1], n2 |-> pairs[hsel][2]]

\* C19 as stated: the six intersections of the axis ray with three concentric
\* glass spheres of increasing radius and indices 1.5, 2.0, 2.5 get the pairs
\* (1.0,1.5) (1.5,2.0) (2.0,2.5) (2.5,2.5) (2.5,1.5) (1.5,1.0).
C19_ConcentricPairs ==
  (hpc = "prepared" /\ hxs = ConcentricXs) => PairsAre(TestPairs)

\* C19, amended: the six intersections of the axis ray with the overlapping
\* glass spheres A (radius 2, index 1.5), B (radius 1, centred 0.25 before A's
\* centre, index 2.0) and C (radius 1, centred 0.25 behind it, index 2.5) get
\* the pairs (1.0,1.5) (1.5,2.0) (2.0,2.5) (2.5,2.5) (2.5,1.5) (1.5,1.0);
\* concentric spheres of radius 1, 2, 3 with these indices get (1.0,2.5)
\* (2.5,2.0) (2.0,1.5) (1.5,2.0) (2.0,2.5) (2.5,1.0).
C19_OverlappingPairs ==
  /\ (hpc = "prepared" /\ hxs = OverlappingXs) => PairsAre(TestPairs)
  /\ (hpc = "prepared" /\ hxs = ConcentricXs) => PairsAre(NestedPairs)

\* The fourth intersection of the overlapping spheres: the ray leaves B and
\* is still in C.
C19_Witness ==
  /\ hpc = "prepared"
  /\ hxs = OverlappingXs
  /\ hsel = 4
  /\ hxs[4].object.handle = 32
  /\ hn = [n1 |-> 25, n2 |-> 25]

\* ------------------------------------------------------------------ scenes
MaxShapes == 2     \* most shapes in an enumerated world
MaxDepth == 2      \* largest remaining depth handed to the outermost color_at

RED == Color_new(1, 0, 0)
GREEN == Color_new(0, 1, 0)
BLUE == Color_new(0, 0, 1)
WHITE == Color_new(1, 1, 1)

Matte(c) == Material_of(c, 1, 1, 0, 0, 0, VACUUM, NoPattern)
Mirror(c) == Material_of(c, 1, 1, 0, 1, 0, VACUUM, NoPattern)
Shiny(c) == Material_of(c, 1, 1, 0, 2, 0, VACUUM, NoPattern)
Glass(c) == Material_of(c, 1, 1, 0, 0, 1, 15, NoPattern)
Clear(c, refractive_index) == Material_of(c, 1, 1, 0, 0, 2, refractive_index, NoPattern)
Striped(c, s) ==
  Material_of(c, 1, 1, 0, 0, 0, VACUUM,
              Pattern_new("Stripe", c, BLACK, Transform_of(s, vector(0, 0, 0))))

\* The shapes a scene is built from: [shape_type, s, z, material], a shape
\* of scale s centred at z * UNIT on the z axis.
Kind(shape_type, s, z, m) == [shape_type |-> shape_type, s |-> s, z |-> z, material |-> m]

Kinds ==
  { Kind("Sphere", 1, 0, Matte(RED)),
    Kind("Sphere", 1, 0, Mirror(GREEN)),
    Kind("Sphere", 1, 0, Glass(BLUE)),
    Kind("Sphere", 2, 0, Glass(BLUE)),
    Kind("Sphere", 1, 3, Mirror(RED)),
    Kind("Sphere", 1, 3, Shiny(RED)),
    Kind("Sphere", 1, 0, Striped(GREEN, 0)),
    Kind("Sphere", 0, 0, Matte(RED)),
    Kind("Plane", 1, 0, Matte(RED)) }

\* Shape::new and set_transform: the k-th shape of a world has handle k.
ShapeOfKind(kind, handle) ==
  Shape_of(kind.shape_type, handle, Transform_of(kind.s, vector(0, 0, kind.z * UNIT)),
           kind.material)

WorldOfKinds(light, kinds) ==
  World_of(light, [k \in 1..Len(kinds) |-> ShapeOfKind(kinds[k], k)])

Lights == {NoLight, PointLight_new(point(0, 0, 2 - 10 * UNIT), WHITE)}

Worlds == {WorldOfKinds(l, q) : l \in Lights, q \in SeqsUpTo(Kinds, MaxShapes)}

\* Rays along the z axis: from in front of every shape, from the centre of
\* the shapes at the origin, and from behind every shape.
CastRays == {Ray_new(point(0, 0, z), vector(0, 0, 1)) : z \in {0 - 6 * UNIT, 0, 6 * UNIT}}

TheLight == PointLight_new(point(0, 0, 2 - 10 * UNIT), WHITE)

\* Casts beside the enumerated ones, each a world and a ray: a ray that
\* touches a sphere of transparency 2 and refractive index 0.5 at (0, 1, 0);
\* a ray through a sphere of transparency 2 with a matte sphere behind it;
\* a ray from between two spheres at a reflective and transparent one;
\* a ray at a sphere that has the light between it and a second sphere.
SpecialCasts ==
  { <<WorldOfKinds(TheLight, <<Kind("Sphere", 1, 0, Clear(BLUE, 5))>>),
      Ray_new(point(0, UNIT, 0 - 6 * UNIT), vector(0, 0, 1))>>,
    <<WorldOfKinds(TheLight, <<Kind("Sphere", 1, 0, Clear(BLUE, 15)),
                               Kind("Sphere", 1, 3, Matte(RED))>>),
      Ray_new(point(0, 0, 0 - 6 * UNIT), vector(0, 0, 1))>>,
    <<WorldOfKinds(TheLight, <<Kind("Sphere", 1, 0 - 3, Matte(RED)),
                               Kind("Sphere", 1, 0, Material_of(BLUE, 1, 1, 0, 1, 1, 15, NoPattern))>>),
      Ray_new(point(0, 0, 0 - 6), vector(0, 0, 1))>>,
    <<WorldOfKinds(TheLight, <<Kind("Sphere", 1, 0 - 12, Matte(RED)),
                               Kind("Sphere", 1, 0, Matte(RED))>>),
      Ray_new(point(0, 0, 0 - 6 * UNIT), vector(0, 0, 1))>> }

\* ------------------------------------------------- a call of color_at
Frame(r, remaining) ==
  [ray |-> r, remaining |-> remaining, pc |-> "color_at", comps |-> [panic |-> FALSE],
   surface |-> BLACK, reflected |-> BLACK, refracted |-> BLACK, value |-> BLACK]

Top == stack[Len(stack)]

SetTop(f) == [stack EXCEPT ![Len(stack)] = f]

\* No call nests deeper than this in the model.
StackCap == MaxDepth + 3

InitColor ==
  /\ IdlePure
  /\ IdleHit
  /\ IdleShape
  /\ IdleMatrix
  /\ IdleRender
  /\ \E cast \in (Worlds \X CastRays) \cup SpecialCasts :
       /\ world = cast[1]
       /\ cray = cast[2]
  /\ cdepth \in 0..MaxDepth
  /\ stack = <<Frame(cray, cdepth)>>
  /\ cresult = BLACK
  /\ cpc = "calling"

Running(pc) == cpc = "calling" /\ stack # <<>> /\ Top.pc = pc

\* color_at: a transform that cannot be inverted.
ColorAtPanic ==
  /\ Running("color_at")
  /\ \E c \in {color_at_hit(world, Top.ray)} : c.panic
  /\ cpc' = "panicked"
  /\ UNCHANGED <<world, cray, cdepth, stack, cresult>>
  /\ UNCHANGED <<hitVars, renderVars, shapeVars, matrixVars, pureVars>>

\* color_at: no hit, the colour is black.
ColorAtMiss ==
  /\ Running("color_at")
  /\ \E c \in {color_at_hit(world, Top.ray)} :
       /\ ~c.panic
       /\ ~c.found
  /\ stack' = SetTop([Top EXCEPT !.pc = "return", !.value = BLACK])
  /\ UNCHANGED <<world, cray, cdepth, cresult, cpc>>
  /\ UNCHANGED <<hitVars, renderVars, shapeVars, matrixVars, pureVars>>

\* color_at: a hit, prepare_computations and the call of shade_hit.
ColorAtHit ==
  /\ Running("color_at")
  /\ \E c \in {color_at_hit(world, Top.ray)} :
       /\ ~c.panic
       /\ c.found
       /\ stack' = SetTop([Top EXCEPT !.pc = "shade_hit", !.comps = c.comps])
  /\ UNCHANGED <<world, cray, cdepth, cresult, cpc>>
  /\ UNCHANGED <<hitVars, renderVars, shapeVars, matrixVars, pureVars>>

\* shade_hit: is_shadowed or lighting panics.
ShadeHitPanic ==
  /\ Running("shade_hit")
  /\ \E surface \in {surface_color(world, Top.comps)} : surface.panic
  /\ cpc' = "panicked"
  /\ UNCHANGED <<world, cray, cdepth, stack, cresult>>
  /\ UNCHANGED <<hitVars, renderVars, shapeVars, matrixVars, pureVars>>

\* shade_hit: is_shadowed and lighting.
ShadeHitSurface ==
  /\ Running("shade_hit")
  /\ \E surface \in {surface_color(world, Top.comps)} :
       /\ ~surface.panic
       /\ stack' = SetTop([Top EXCEPT !.pc = "reflected_color", !.surface = surface.color])
  /\ UNCHANGED <<world, cray, cdepth, cresult, cpc>>
  /\ UNCHANGED <<hitVars, renderVars, shapeVars, matrixVars, pureVars>>

\* reflected_color: the early return.
ReflectedBlack ==
  /\ Running("reflected_color")
  /\ reflected_is_black(Top.comps, Top.remaining)
  /\ stack' = SetTop([Top EXCEPT !.pc = "refracted_color", !.reflected = BLACK])
  /\ UNCHANGED <<world, cray, cdepth, cresult, cpc>>
  /\ UNCHANGED <<hitVars, renderVars, shapeVars, matrixVars, pureVars>>

\* reflected_color: the recursive call of color_at.
ReflectedCall ==
  /\ Running("reflected_color")
  /\ ~reflected_is_black(Top.comps, Top.remaining)
  /\ Len(stack) < StackCap
  /\ stack' = Append(SetTop([Top EXCEPT !.pc = "reflected_wait"]),
                     Frame(reflected_ray(Top.comps), Top.remaining - 1))
  /\ UNCHANGED <<world, cray, cdepth, cresult, cpc>>
  /\ UNCHANGED <<hitVars, renderVars, shapeVars, matrixVars, pureVars>>

Caller == stack[Len(stack) - 1]

Return(f) == Append(SubSeq(stack, 1, Len(stack) - 2), f)

\* reflected_color: the recursive call returns.
ReflectedReturn ==
  /\ Running("return")
  /\ Len(stack) > 1
  /\ Caller.pc = "reflected_wait"
  /\ stack' = Return([Caller EXCEPT
                        !.pc = "refracted_color",
                        !.reflected = reflected_scaled(Top.value, Caller.comps)])
  /\ UNCHANGED <<world, cray, cdepth, cresult, cpc>>
  /\ UNCHANGED <<hitVars, renderVars, shapeVars, matrixVars, pureVars>>

\* refracted_color: the early return, or total internal reflection.
RefractedBlack ==
  /\ Running("refracted_color")
  /\ \/ refracted_is_black(Top.comps, Top.remaining)
     \/ \E rr \in {refracted_ray(Top.comps)} : rr.total
  /\ stack' = SetTop([Top EXCEPT !.pc = "sum", !.refracted = BLACK])
  /\ UNCHANGED <<world, cray, cdepth, cresult, cpc>>
  /\ UNCHANGED <<hitVars, renderVars, shapeVars, matrixVars, pureVars>>

\* refracted_color: the recursive call of color_at.
RefractedCall ==
  /\ Running("refracted_color")
  /\ ~refracted_is_black(Top.comps, Top.remaining)
  /\ Len(stack) < StackCap
  /\ \E rr \in {refracted_ray(Top.comps)} :
       /\ ~rr.total
       /\ stack' = Append(SetTop([Top EXCEPT !.pc = "refracted_wait"]),
                          Frame(rr.ray, Top.remaining - 1))
  /\ UNCHANGED <<world, cray, cdepth, cresult, cpc>>
  /\ UNCHANGED <<hitVars, renderVars, shapeVars, matrixVars, pureVars>>

\* refracted_color: the recursive call returns.
RefractedReturn ==
  /\ Running("return")
  /\ Len(stack) > 1
  /\ Caller.pc = "refracted_wait"
  /\ stack' = Return([Caller EXCEPT
                        !.pc = "sum",
                        !.refracted = Color_mult(Top.value,
                                                 Caller.comps.object.material.transparency)])
  /\ UNCHANGED <<world, cray, cdepth, cresult, cpc>>
  /\ UNCHANGED <<hitVars, renderVars, shapeVars, matrixVars, pureVars>>

\* shade_hit: the sum of the three colours.
ShadeHitSum ==
  /\ Running("sum")
  /\ stack' = SetTop([Top EXCEPT
                        !.pc = "return",
                        !.value = shade_hit_sum(Top.surface, Top.reflected,
                                                Top.refracted)])
  /\ UNCHANGED <<world, cray, cdepth, cresult, cpc>>
  /\ UNCHANGED <<hitVars, renderVars, shapeVars, matrixVars, pureVars>>

\* The outermost color_at returns to its caller.
ColorAtReturn ==
  /\ Running("return")
  /\ Len(stack) = 1
  /\ cresult' = Top.value
  /\ cpc' = "done"
  /\ stack' = <<>>
  /\ UNCHANGED <<world, cray, cdepth>>
  /\ UNCHANGED <<hitVars, renderVars, shapeVars, matrixVars, pureVars>>

NextColor ==
  \/ ColorAtPanic
  \/ ColorAtMiss
  \/ ColorAtHit
  \/ ShadeHitPanic
  \/ ShadeHitSurface
  \/ ReflectedBlack
  \/ ReflectedCall
  \/ ReflectedReturn
  \/ RefractedBlack
  \/ RefractedCall
  \/ RefractedReturn
  \/ ShadeHitSum
  \/ ColorAtReturn

SpecColor == InitColor /\ [][NextColor]_vars

\* The code runs a call to its end: a frame that can take a step takes it.
SpecColorFair == SpecColor /\ WF_vars(NextColor)

\* The steps of the call compute what the recursive functions compute.
ColorAtAgrees ==
  /\ cpc = "done" => color_at(world, cray, cdepth) = [panic |-> FALSE, color |-> cresult]
  /\ cpc = "panicked" => color_at(world, cray, cdepth).panic

\* ------------------------------------------------------- claims: color_at
\* The frames whose color_at has found its hit and prepared its computations.
Prepared == {k \in 1..Len(stack) : "t" \in DOMAIN stack[k].comps}

AllIntersections(f) == intersect_world(world, f.ray).intersections

\* The hit leaves a transparent shape the ray entered earlier.
LeavesTransparent(f) ==
  /\ f.comps.object.material.transparency > 0
  /\ \E j \in 1..Len(AllIntersections(f)) :
        /\ AllIntersections(f)[j].t < f.comps.t
        /\ AllIntersections(f)[j].object.handle = f.comps.object.handle

\* C3: color_at prepares the computations of its hit from all the world
\* intersections of the ray: when the hit leaves a transparent shape entered
\* earlier on the ray, n1 and n2 are the indices of the last shape entered
\* and not left before the hit and after it (1.0 when none remains).
C3_AllIntersectionsWalked ==
  \A k \in Prepared :
    LeavesTransparent(stack[k]) =>
      /\ stack[k].comps.n1 =
           IndexOfLast(ContainersAfter(AllIntersections(stack[k]),
                                       HitEntry(AllIntersections(stack[k]), stack[k].comps) - 1))
      /\ stack[k].comps.n2 =
           IndexOfLast(ContainersAfter(AllIntersections(stack[k]),
                                       HitEntry(AllIntersections(stack[k]), stack[k].comps)))

DepthBounded ==
  /\ Len(stack) <= cdepth + 1
  /\ \A k \in 1..Len(stack) : stack[k].remaining >= 0
  /\ stack # <<>> => stack[1].remaining = cdepth
  /\ \A k \in 2..Len(stack) : stack[k].remaining = stack[k - 1].remaining - 1

\* C4: every call color_at(ray, d) ends, by returning or by a panic; every
\* nested color_at call has the remaining depth of its caller less one, none
\* is made at remaining depth 0, and at most d + 1 calls are nested.
C4_ColorAtTerminates ==
  /\ []DepthBounded
  /\ <>(cpc \in {"done", "panicked"})

\* The innermost of d + 1 nested calls has hit a reflective surface with no
\* depth remaining.
C4_Witness ==
  /\ cpc = "calling"
  /\ cdepth = 2
  /\ Len(stack) = cdepth + 1
  /\ Top.pc = "reflected_color"
  /\ Top.remaining = 0
  /\ Top.comps.object.material.reflectiveness > 0

Reordered(w) == World_of(w.light, Reverse(w.objects))

\* C7: a world and the world of the same shapes added in the reverse order
\* give color_at the same colour and is_shadowed the same answer.
C7_InsertionOrderIrrelevant ==
  /\ cpc = "done" =>
       color_at(Reordered(world), cray, cdepth) = [panic |-> FALSE, color |-> cresult]
  /\ \A k \in Prepared :
       is_shadowed(Reordered(world), stack[k].comps.over_point)
         = is_shadowed(world, stack[k].comps.over_point)

\* C11: in a world without a light is_shadowed and shade_hit panic and return
\* no answer, and color_at returns a colour only for a ray without a hit.
C11_NoLightFailsFast ==
  ~world.light.some =>
    /\ \A k \in Prepared :
         /\ stack[k].pc = "shade_hit"
         /\ is_shadowed(world, stack[k].comps.over_point).panic
         /\ surface_color(world, stack[k].comps).panic
         /\ shade_hit(world, stack[k].comps, stack[k].remaining).panic
    /\ color_at_hit(world, cray).found => color_at(world, cray, cdepth).panic
    /\ cpc = "done" => ~color_at_hit(world, cray).found

\* The call has panicked in shade_hit on a hit in a world without a light and
\* without a singular transform.
C11_Witness ==
  /\ cpc = "panicked"
  /\ ~world.light.some
  /\ Len(stack) = 1
  /\ Top.pc = "shade_hit"
  /\ Top.comps.t >= 0
  /\ \A k \in 1..Len(world.objects) : invertible(world.objects[k].transform)

\* The world intersections of r are none, or all behind the ray's origin.
Misses(r) ==
  LET none(xs) ==
        /\ ~xs.panic
        /\ \A j \in 1..Len(xs.intersections) : xs.intersections[j].t < 0
  IN With(intersect_world(world, r), none)

\* C13: color_at returns black, at every remaining depth and with or without
\* a light, for a ray whose world intersections are none or all at t < 0; it
\* neither shades nor panics.
C13_MissIsBlack ==
  /\ \A k \in 1..Len(stack) :
       Misses(stack[k].ray) =>
         /\ stack[k].pc \in {"color_at", "return"}
         /\ stack[k].pc = "return" => stack[k].value = BLACK
         /\ \A d \in 0..MaxDepth :
              color_at(world, stack[k].ray, d) = [panic |-> FALSE, color |-> BLACK]
  /\ (cpc \in {"done", "panicked"} /\ Misses(cray)) => (cpc = "done" /\ cresult = BLACK)

\* Black returned in a world without a light for a ray that has every
\* intersection behind it.
C13_Witness ==
  /\ cpc = "done"
  /\ cresult = BLACK
  /\ ~world.light.some
  /\ cdepth > 0
  /\ Misses(cray)
  /\ Len(intersect_world(world, cray).intersections) > 1

\* C20: reflected_color returns black and casts no ray when the remaining
\* depth is 0 or the material's reflectiveness is 0; otherwise it calls
\* color_at on the ray from over_point along reflectv with the remaining depth
\* less one and returns reflectiveness times the colour of that call.
C20_ReflectedColor ==
  [][ /\ Running("reflected_color") =>
           IF Top.remaining = 0 \/ Top.comps.object.material.reflectiveness = 0
           THEN /\ Len(stack') = Len(stack)
                /\ stack'[Len(stack')].reflected = BLACK
                /\ stack'[Len(stack')].pc = "refracted_color"
           ELSE /\ Len(stack') = Len(stack) + 1
                /\ stack'[Len(stack')].pc = "color_at"
                /\ stack'[Len(stack')].ray = Ray_new(Top.comps.over_point, Top.comps.reflectv)
                /\ stack'[Len(stack')].remaining = Top.remaining - 1
                /\ stack'[Len(stack)].pc = "reflected_wait"
      /\ (Running("return") /\ Len(stack) > 1 /\ Caller.pc = "reflected_wait") =>
           /\ Len(stack') = Len(stack) - 1
           /\ stack'[Len(stack')].reflected =
                Color_mult(Top.value, Caller.comps.object.material.reflectiveness)
           /\ [panic |-> FALSE, color |-> stack'[Len(stack')].reflected]
                = reflected_color(world, Caller.comps, Caller.remaining) ]_vars

\* A surface of reflectiveness 2 has been handed twice the colour, not
\* black, that the reflected ray found.
C20_Witness ==
  /\ cpc = "calling"
  /\ stack # <<>>
  /\ Top.pc = "refracted_color"
  /\ Top.remaining > 0
  /\ Top.comps.object.material.reflectiveness = 2
  /\ Top.reflected # BLACK
  /\ Top.reflected = Color_mult(color_at(world, reflected_ray(Top.comps), Top.remaining - 1).color, 2)

\* sin2_t > 1, with n1 / n2 multiplied out.
TotalInternal(comps) ==
  comps.n1 * comps.n1 * (1 - dot(comps.eyev, comps.normalv) * dot(comps.eyev, comps.normalv))
    > comps.n2 * comps.n2

\* C21: refracted_color returns black and casts no ray when the remaining
\* depth is 0, the material's transparency is 0 or the reflection is total
\* internal; otherwise it calls color_at on the ray from under_point along the
\* refracted direction with the remaining depth less one and returns
\* transparency times the colour of that call.
C21_RefractedColor ==
  [][ /\ Running("refracted_color") =>
           IF \/ Top.remaining = 0
              \/ Top.comps.object.material.transparency = 0
              \/ TotalInternal(Top.comps)
           THEN /\ Len(stack') = Len(stack)
                /\ stack'[Len(stack')].refracted = BLACK
                /\ stack'[Len(stack')].pc = "sum"
           ELSE /\ Len(stack') = Len(stack) + 1
                /\ stack'[Len(stack')].pc = "color_at"
                /\ stack'[Len(stack')].ray.origin = Top.comps.under_point
                /\ stack'[Len(stack')].ray.direction = refracted_ray(Top.comps).ray.direction
                /\ stack'[Len(stack')].remaining = Top.remaining - 1
                /\ stack'[Len(stack)].pc = "refracted_wait"
      /\ (Running("return") /\ Len(stack) > 1 /\ Caller.pc = "refracted_wait") =>
           /\ Len(stack') = Len(stack) - 1
           /\ stack'[Len(stack')].refracted =
                Color_mult(Top.value, Caller.comps.object.material.transparency)
           /\ [panic |-> FALSE, color |-> stack'[Len(stack')].refracted]
                = refracted_color(world, Caller.comps, Caller.remaining) ]_vars

\* Total internal reflection with depth remaining: the ray touches a
\* transparent sphere whose refractive index is below the one outside.
C21_Witness ==
  /\ cpc = "calling"
  /\ stack # <<>>
  /\ Top.pc = "sum"
  /\ Top.remaining > 0
  /\ Top.comps.object.material.transparency > 0
  /\ TotalInternal(Top.comps)
  /\ Top.refracted = BLACK

\* C22: shade_hit returns surface + reflected + refracted, channel by
\* channel, unweighted and unclamped, where surface is lighting with
\* in_shadow = is_shadowed(over_point), reflected is reflected_color(comps, d)
\* and refracted is refracted_color(comps, d).
C22_ShadeHitAdds ==
  [][ /\ (Running("shade_hit") /\ cpc' = "calling") =>
           [panic |-> FALSE, color |-> stack'[Len(stack')].surface]
             = lighting(Top.comps.object.material, Top.comps.object, world.light,
                        Top.comps.point, Top.comps.eyev, Top.comps.normalv,
                        is_shadowed(world, Top.comps.over_point).shadowed)
      /\ Running("sum") =>
           /\ [panic |-> FALSE, color |-> Top.reflected]
                = reflected_color(world, Top.comps, Top.remaining)
           /\ [panic |-> FALSE, color |-> Top.refracted]
                = refracted_color(world, Top.comps, Top.remaining)
           /\ stack'[Len(stack')].pc = "return"
           /\ stack'[Len(stack')].value.r = Top.surface.r + Top.reflected.r + Top.refracted.r
           /\ stack'[Len(stack')].value.g = Top.surface.g + Top.reflected.g + Top.refracted.g
           /\ stack'[Len(stack')].value.b = Top.surface.b + Top.reflected.b + Top.refracted.b
           /\ [panic |-> FALSE, color |-> stack'[Len(stack')].value]
                = shade_hit(world, Top.comps, Top.remaining) ]_vars

\* A sum of three colours, none of them black, with a channel above 1.
C22_Witness ==
  /\ cpc = "calling"
  /\ stack # <<>>
  /\ Top.pc = "return"
  /\ "t" \in DOMAIN Top.comps
  /\ Top.surface # BLACK
  /\ Top.reflected # BLACK
  /\ Top.refracted # BLACK
  /\ Top.value.r > 1 \/ Top.value.g > 1 \/ Top.value.b > 1

\* The ray is_shadowed casts from pt, its length to the light, and what it
\* meets among all the shapes of the world.
ToLight(pt) == Tuple_sub(world.light.position, pt)

ShadowXs(pt) == intersect_world(world, Ray_new(pt, Tuple_norm(ToLight(pt)))).intersections

\* Some shape is met at a non-negative t below the distance: so is the
\* nearest of the non-negative ones.
Occluded(pt) ==
  \E k \in 1..Len(ShadowXs(pt)) :
    ShadowXs(pt)[k].t >= 0 /\ ShadowXs(pt)[k].t < Tuple_mag(ToLight(pt))

\* The frames in shade_hit of a world with a light.
Shading == {k \in Prepared : stack[k].pc = "shade_hit" /\ world.light.some}

\* C23: is_shadowed(point) is true iff the nearest non-negative t at which
\* the ray from point toward the light meets a shape of the world is
\* strictly below the distance to the light; shapes beyond the light or
\* behind the point do not shadow it.
C23_ShadowedIffNearerThanLight ==
  \A k \in Shading :
    /\ ~is_shadowed(world, stack[k].comps.over_point).panic
    /\ is_shadowed(world, stack[k].comps.over_point).shadowed
         <=> Occluded(stack[k].comps.over_point)

\* A point out of shadow with one shape behind it and another beyond the
\* light.
C23_Witness ==
  \E k \in Shading :
    /\ ~is_shadowed(world, stack[k].comps.over_point).shadowed
    /\ \E j \in 1..Len(ShadowXs(stack[k].comps.over_point)) :
         ShadowXs(stack[k].comps.over_point)[j].t
           >= Tuple_mag(ToLight(stack[k].comps.over_point))
    /\ \E j \in 1..Len(ShadowXs(stack[k].comps.over_point)) :
         ShadowXs(stack[k].comps.over_point)[j].t < 0

\* A point in shadow.
C23_Shadowed ==
  \E k \in Shading : is_shadowed(world, stack[k].comps.over_point).shadowed

\* What each shape of the world answers to the ray of frame f, in the order
\* of the world's objects.
PerShape(f) == [k \in 1..Len(world.objects) |-> Shape_intersects(world.objects[k], f.ray)]

RECURSIVE Occurrences(_, _)
Occurrences(list, e) ==
  IF list = <<>> THEN 0
  ELSE (IF Head(list) = e THEN 1 ELSE 0) + Occurrences(Tail(list), e)

RECURSIVE OccurrencesIn(_, _)
OccurrencesIn(each, e) ==
  IF each = <<>> THEN 0
  ELSE Occurrences(Head(each).intersections, e) + OccurrencesIn(Tail(each), e)

RECURSIVE TotalLen(_)
TotalLen(each) ==
  IF each = <<>> THEN 0 ELSE Len(Head(each).intersections) + TotalLen(Tail(each))

\* xs is the union of the lists of each, sorted: as long as they are
\* together, every entry with the t and the shape that produced it, as often
\* as the shapes produced it, in non-decreasing t.
SortedUnion(each, xs) ==
  /\ ~xs.panic
  /\ Len(xs.intersections) = TotalLen(each)
  /\ \A j \in 1..Len(each) :
       \A n \in 1..Len(each[j].intersections) :
         /\ each[j].intersections[n].object.handle = world.objects[j].handle
         /\ Occurrences(xs.intersections, each[j].intersections[n])
              = OccurrencesIn(each, each[j].intersections[n])
  /\ \A n \in 1..(Len(xs.intersections) - 1) :
       xs.intersections[n].t <= xs.intersections[n + 1].t

Answered(each) == \A j \in 1..Len(each) : ~each[j].panic

\* C25: intersect_world(ray) is the union of every shape's intersects(ray):
\* its length is the sum of the per-shape counts, each entry keeps the t and
\* the handle of the shape that produced it, and the list is sorted in
\* non-decreasing t.
C25_SortedUnion ==
  (stack # <<>> /\ With(PerShape(Top), Answered)) =>
    With2(PerShape(Top), intersect_world(world, Top.ray), SortedUnion)

\* Two shapes answered the ray of a color_at that went on to its hit, the
\* later one of the world with the smaller t.
C25_Witness ==
  LET later(each) ==
        /\ Answered(each)
        /\ \E i, j \in 1..Len(each) :
             /\ i < j
             /\ each[i].intersections # <<>>
             /\ each[j].intersections # <<>>
             /\ each[j].intersections[1].t < each[i].intersections[1].t
  IN /\ stack # <<>>
     /\ "t" \in DOMAIN Top.comps
     /\ With(PerShape(Top), later)

\* The stored values of frame f against the normal n of its shape at its
\* point.
FacesEye(f, n) ==
  /\ ~n.panic
  /\ f.comps.eyev = Tuple_negate(f.ray.direction)
  /\ f.comps.inside <=> dot(n.normal, f.comps.eyev) < 0
  /\ f.comps.inside => f.comps.normalv = Tuple_negate(n.normal)
  /\ ~f.comps.inside => f.comps.normalv = n.normal
  /\ dot(f.comps.normalv, f.comps.eyev) >= 0

\* C26: in every Computations of prepare_computations the normal faces the
\* eye: inside is true iff the shape's normal at the point has a negative
\* dot product with eyev = -ray.direction, normalv is that normal negated
\* exactly when inside is true, and dot(normalv, eyev) >= 0.
C26_NormalFacesEye ==
  \A k \in Prepared :
    With2(stack[k], normal_at(stack[k].comps.object, stack[k].comps.point), FacesEye)

\* A hit from the inside of its shape: the stored normal is the negated one.
C26_Witness ==
  \E k \in Prepared :
    /\ stack[k].comps.inside
    /\ stack[k].comps.normalv
         = Tuple_negate(normal_at(stack[k].comps.object, stack[k].comps.point).normal)
    /\ dot(stack[k].comps.normalv, stack[k].comps.eyev) > 0

\* ------------------------------------------- claims: coincident surfaces
SortedByT(xs) == \A k \in 1..(Len(xs) - 1) : xs[k].t <= xs[k + 1].t

\* An entry of another shape with the t of the selected hit stands before
\* it in the list.
CoincidentBefore ==
  \E j \in 1..(hsel - 1) :
    hxs[j].t = hxs[hsel].t /\ hxs[j].object.handle # hxs[hsel].object.handle

\* C27: the walk of prepare_computations assigns n1 and n2 at the entry
\* that is the hit itself: with an earlier entry of another shape at the
\* same t, n1 is the index of the innermost container before the hit's own
\* entry and n2 the one after it.
C27_AtOwnEntry ==
  (hpc = "prepared" /\ SortedByT(hxs) /\ CoincidentBefore) =>
    /\ hn.n1 = last_index(containers_after(hxs, hsel - 1))
    /\ hn.n2 = last_index(containers_after(hxs, hsel))

\* ------------------------------------------------------------------ camera
MaxSize == 3       \* largest hsize and vsize of an enumerated camera

RenderDepth == 5   \* the remaining depth render_line hands to color_at

\* Camera::new, with half_view = tan(fov / 2) handed in.
Camera_new(hsize, vsize, half_view) ==
  LET sized(half_width, half_height) ==
        [hsize |-> hsize, vsize |-> vsize, half_width |-> half_width,
         half_height |-> half_height, pixel_size |-> (half_width * 2) \div hsize,
         transform |-> Matrix_identity]
  IN IF hsize >= vsize
     THEN With2(half_view, (half_view * vsize) \div hsize, sized)
     ELSE With2((half_view * hsize) \div vsize, half_view, sized)

ray_for_pixel(cam, x, y) ==
  LET cast(origin, direction) == [panic |-> FALSE, ray |-> Ray_new(origin, direction)]
      between(origin, pixel) ==
        With2(origin, With(Tuple_sub(pixel, origin), Tuple_norm), cast)
      through(i, world_x, world_y) ==
        IF i.panic THEN Panic
        ELSE With2(Tuple_div(mult_4x4_by_1d(i, point(0, 0, 0)), i.den),
                   Tuple_div(mult_4x4_by_1d(i, point(world_x, world_y, 0 - UNIT)), i.den),
                   between)
      offsets(xoffset, yoffset) ==
        With3(inverse(cam.transform), cam.half_width - xoffset, cam.half_height - yoffset,
              through)
  IN With2(((2 * x + 1) * cam.pixel_size) \div 2, ((2 * y + 1) * cam.pixel_size) \div 2,
           offsets)

\* The loop of render_line from pixel x on.
RECURSIVE render_line_from(_, _, _, _, _)
render_line_from(cam, w, line, x, out) ==
  LET rest(longer) == render_line_from(cam, w, line, x + 1, longer)
      pushed(c) ==
        IF c.panic THEN Panic
        ELSE With(Append(out, c.color), rest)
      traced(r) ==
        IF r.panic THEN Panic
        ELSE With(color_at(w, r.ray, RenderDepth), pushed)
  IN IF x >= cam.hsize THEN [panic |-> FALSE, out |-> out]
     ELSE With(ray_for_pixel(cam, x, line), traced)

render_line(cam, w, line) == render_line_from(cam, w, line, 0, <<>>)

\* ------------------------------------------------------------------ canvas
Canvas_new(width, height) ==
  [width |-> width, height |-> height, canvas |-> [k \in 1..(width * height) |-> BLACK]]

Canvas_set(cv, x, y, c) == [cv EXCEPT !.canvas[x + y * cv.width + 1] = c]

\* The first n rounds of the two loops that end render.
RECURSIVE set_pixels(_, _, _)
set_pixels(cv, rows, n) ==
  LET set(before, x, y) == Canvas_set(before, x, y, rows[y + 1][x + 1])
  IN IF n = 0 THEN cv
     ELSE With3(set_pixels(cv, rows, n - 1), (n - 1) % cv.width, (n - 1) \div cv.width, set)

\* ------------------------------------------------------- a call of render
HalfView == 3 * UNIT

RenderScenes ==
  { <<>>,
    <<Kind("Sphere", 1, 0 - 3, Matte(RED))>>,
    <<Kind("Sphere", 1, 0 - 3, Striped(GREEN, 1))>>,
    <<Kind("Sphere", 1, 0 - 3, Striped(GREEN, 0))>>,
    <<Kind("Sphere", 1, 0 - 3, Matte(RED)), Kind("Sphere", 1, 0 - 6, Striped(GREEN, 0))>>,
    <<Kind("Sphere", 1, 0 - 3, Mirror(GREEN)), Kind("Sphere", 1, 3, Matte(RED))>>,
    <<Kind("Sphere", 0, 0 - 3, Matte(RED))>> }

RenderLights == {NoLight, PointLight_new(point(0, 0, 0), WHITE)}

RenderWorlds == {WorldOfKinds(l, q) : l \in RenderLights, q \in RenderScenes}

\* Cameras at the origin looking along -z, with the transform left as it is
\* or set to a scaling by 0.
Cameras ==
  {[Camera_new(h, v, HalfView) EXCEPT !.transform = Transform_of(s, vector(0, 0, 0))] :
     h \in 1..MaxSize, v \in 1..MaxSize, s \in {0, 1}}

Queued == [state |-> "queued", out |-> <<>>]

InitRender ==
  /\ IdlePure
  /\ IdleHit
  /\ IdleShape
  /\ IdleMatrix
  /\ IdleColor
  /\ world \in RenderWorlds
  /\ camera \in Cameras
  /\ tasks = [line \in 0..(camera.vsize - 1) |-> Queued]
  /\ finished = <<>>
  /\ pixels = <<>>
  /\ canvas = Canvas_new(camera.hsize, camera.vsize)
  /\ rpc = "parallel"

\* A scanline task that gives the world away emptied.
RenderLineTakes(line) ==
  /\ rpc = "parallel"
  /\ tasks[line].state = "queued"
  /\ \E r \in {render_line(camera, world, line)} :
       /\ ~r.panic
       /\ tasks' = [tasks EXCEPT ![line] = [state |-> "done", out |-> r.out]]
  /\ finished' = Append(finished, line)
  /\ world' = World_of(world.light, <<>>)
  /\ UNCHANGED <<camera, pixels, canvas, rpc>>
  /\ UNCHANGED <<hitVars, colorVars, shapeVars, matrixVars, pureVars>>

\* A scanline task runs render_line to its end.
RenderLine(line) ==
  /\ rpc = "parallel"
  /\ tasks[line].state = "queued"
  /\ \E r \in {render_line(camera, world, line)} :
       /\ ~r.panic
       /\ tasks' = [tasks EXCEPT ![line] = [state |-> "done", out |-> r.out]]
  /\ finished' = Append(finished, line)
  /\ UNCHANGED <<world, camera, pixels, canvas, rpc>>
  /\ UNCHANGED <<hitVars, colorVars, shapeVars, matrixVars, pureVars>>

\* A scanline task panics in render_line.
RenderLinePanic(line) ==
  /\ rpc = "parallel"
  /\ tasks[line].state = "queued"
  /\ \E r \in {render_line(camera, world, line)} : r.panic
  /\ tasks' = [tasks EXCEPT ![line] = [state |-> "panicked", out |-> <<>>]]
  /\ finished' = Append(finished, line)
  /\ UNCHANGED <<world, camera, pixels, canvas, rpc>>
  /\ UNCHANGED <<hitVars, colorVars, shapeVars, matrixVars, pureVars>>

\* Every task has ended, whether with a row or with a panic.
joined_or_panicked(ts) == \A line \in DOMAIN ts : ts[line].state # "queued"

\* Every task has returned its row.
joined(ts) == \A line \in DOMAIN ts : ts[line].state = "done"

\* The rows in the order the tasks ended.
collect_as_completed(ts, order) == [k \in 1..Len(order) |-> ts[order[k]].out]

\* collect: the row of line y is the y-th of the rows.
collect(ts, order) == [k \in 1..Len(order) |-> ts[k - 1].out]

Collect ==
  /\ rpc = "parallel"
  /\ joined(tasks)
  /\ pixels' = collect(tasks, finished)
  /\ rpc' = "collected"
  /\ UNCHANGED <<world, camera, tasks, finished, canvas>>
  /\ UNCHANGED <<hitVars, colorVars, shapeVars, matrixVars, pureVars>>

\* The panic of a task is thrown on in the caller of the parallel iterator;
\* tasks that have not run by then never do.
Propagate ==
  /\ rpc = "parallel"
  /\ \E line \in DOMAIN tasks : tasks[line].state = "panicked"
  /\ rpc' = "panicked"
  /\ UNCHANGED <<world, camera, tasks, finished, pixels, canvas>>
  /\ UNCHANGED <<hitVars, colorVars, shapeVars, matrixVars, pureVars>>

\* The two loops over y and x, and the return of the canvas.
Assemble ==
  /\ rpc = "collected"
  /\ canvas' = set_pixels(canvas, pixels, camera.hsize * camera.vsize)
  /\ rpc' = "returned"
  /\ UNCHANGED <<world, camera, tasks, finished, pixels>>
  /\ UNCHANGED <<hitVars, colorVars, shapeVars, matrixVars, pureVars>>

NextRender ==
  \/ \E line \in DOMAIN tasks : RenderLine(line)
  \/ \E line \in DOMAIN tasks : RenderLinePanic(line)
  \/ Collect
  \/ Propagate
  \/ Assemble

SpecRender == InitRender /\ [][NextRender]_vars

\* --------------------------------------------------------- claims: render
PixelColor(x, y) ==
  LET traced(r) == IF r.panic THEN Panic ELSE color_at(world, r.ray, RenderDepth)
  IN With(ray_for_pixel(camera, x, y), traced)

\* C1: whatever the order in which the scanline tasks end, the canvas render
\* returns holds at every (x, y) the colour color_at returns for the ray of
\* that pixel at remaining depth 5.
C1_RenderIsColorAt ==
  rpc = "returned" =>
    /\ Len(canvas.canvas) = camera.hsize * camera.vsize
    /\ \A x \in 0..(camera.hsize - 1), y \in 0..(camera.vsize - 1) :
         PixelColor(x, y) = [panic |-> FALSE, color |-> canvas.canvas[x + y * canvas.width + 1]]

\* A canvas of three rows returned after the tasks ended last line first,
\* with a lit sphere in its middle.
C1_Witness ==
  /\ rpc = "returned"
  /\ finished = <<2, 1, 0>>
  /\ camera.hsize = 3
  /\ canvas.canvas[5] # BLACK
  /\ canvas.canvas[2] = BLACK

Singular(m) == ~invertible(m)

SingularScene ==
  \/ Singular(camera.transform)
  \/ \E k \in 1..Len(world.objects) :
       \/ Singular(world.objects[k].transform)
       \/ /\ world.objects[k].material.pattern.some
          /\ Singular(world.objects[k].material.pattern.transform)

\* C8: render returns no canvas for a scene in which a shape transform, a
\* pattern transform or the camera transform is singular.
C8_SingularSceneFails ==
  rpc = "returned" => ~SingularScene

\* C9: render returns a canvas only when no scanline task has panicked, and
\* the canvas then holds the row of every task.
C9_PanicPropagates ==
  rpc \in {"collected", "returned"} =>
    /\ \A line \in DOMAIN tasks :
         /\ tasks[line].state = "done"
         /\ ~render_line(camera, world, line).panic
    /\ \A y \in 1..Len(pixels) : pixels[y] = tasks[y - 1].out

\* render has panicked after one task gave its row and another panicked.
C9_Witness ==
  /\ rpc = "panicked"
  /\ \E line \in DOMAIN tasks : tasks[line].state = "done"
  /\ \E line \in DOMAIN tasks : tasks[line].state = "panicked"

\* C10: no step of render changes the world.
C10_WorldReadOnly ==
  [][world' = world]_vars

\* Part of the lines of a world of two shapes are rendered, part are not.
C10_Witness ==
  /\ rpc = "parallel"
  /\ Len(world.objects) = 2
  /\ \E line \in DOMAIN tasks : tasks[line].state = "done"
  /\ \E line \in DOMAIN tasks : tasks[line].state = "queued"

\* ------------------------------------------------------- the life of shapes
MaxNew == 2        \* most Shape::new calls
HandleBits == 2    \* bits of the random handle drawn in the model (the program draws 32)

\* The values rng.gen can return.
RandomHandles == 0..(2 ^ HandleBits - 1)

\* Material::new, coefficients in whole numbers.
Material_new == Material_of(Color_new(1, 1, 1), 1, 1, 1, 0, 0, VACUUM, NoPattern)

\* Shape::new with the handle the generator returned.
Shape_new(shape_type, handle) == Shape_of(shape_type, handle, Matrix_identity, Material_new)

set_transform(shape, transform) == [shape EXCEPT !.transform = transform]

InitShape ==
  /\ IdlePure
  /\ IdleHit
  /\ IdleColor
  /\ IdleRender
  /\ IdleMatrix
  /\ world = NoWorld
  /\ shapes = <<>>
  /\ calls = 0

\* Shape::new: the handle is whatever the thread's generator returns.
ShapeNew(shape_type) ==
  /\ calls < MaxNew
  /\ \E handle \in RandomHandles :
       shapes' = Append(shapes, [shape |-> Shape_new(shape_type, handle), call |-> calls + 1])
  /\ calls' = calls + 1
  /\ UNCHANGED <<hitVars, world, colorVars, renderVars, matrixVars, pureVars>>

SetTransform(k, transform) ==
  /\ shapes' = [shapes EXCEPT ![k].shape = set_transform(shapes[k].shape, transform)]
  /\ UNCHANGED calls
  /\ UNCHANGED <<hitVars, world, colorVars, renderVars, matrixVars, pureVars>>

\* An assignment to a field of the shape's material.
SetMaterial(k, refractive_index) ==
  /\ shapes' = [shapes EXCEPT ![k].shape.material.refractive_index = refractive_index]
  /\ UNCHANGED calls
  /\ UNCHANGED <<hitVars, world, colorVars, renderVars, matrixVars, pureVars>>

\* clone: a second shape of the same Shape::new call.
Clone(k) ==
  /\ Len(shapes) <= MaxNew
  /\ shapes' = Append(shapes, shapes[k])
  /\ UNCHANGED calls
  /\ UNCHANGED <<hitVars, world, colorVars, renderVars, matrixVars, pureVars>>

NextShape ==
  \/ \E shape_type \in {"Sphere", "Plane"} : ShapeNew(shape_type)
  \/ \E k \in 1..Len(shapes), s \in {1, 2} : SetTransform(k, Transform_of(s, vector(0, 0, 0)))
  \/ \E k \in 1..Len(shapes), n \in {VACUUM, 15} : SetMaterial(k, n)
  \/ \E k \in 1..Len(shapes) : Clone(k)

SpecShape == InitShape /\ [][NextShape]_vars

\* --------------------------------------------------------- claims: shapes
\* C15: shapes of different Shape::new calls never have equal handles, and no
\* step (set_transform, a material edit, clone, a later Shape::new) changes
\* the handle of a shape.
C15_HandlesUnique ==
  [][ /\ \A j, k \in 1..Len(shapes') :
           shapes'[j].call # shapes'[k].call => shapes'[j].shape.handle # shapes'[k].shape.handle
      /\ \A k \in 1..Len(shapes) : shapes'[k].shape.handle = shapes[k].shape.handle ]_vars

\* The half of C15 the code keeps: no step changes a handle, and a clone has
\* the handle of its original.
HandlesStable ==
  [][ /\ \A k \in 1..Len(shapes) : shapes'[k].shape.handle = shapes[k].shape.handle
      /\ \A j, k \in 1..Len(shapes') :
           shapes'[j].call = shapes'[k].call => shapes'[j].shape.handle = shapes'[k].shape.handle
    ]_vars

\* ------------------------------------------------------------------ Matrix
\* The matrix as the program stores it: rows, cols and the entries row after
\* row.  The entries are whole numbers; the quotient c / d of inverse is kept
\* as the numerator c in data and the denominator d in den, so the entries
\* of a matrix are data / den and den is 1 for every matrix not made by
\* inverse.
Matrix_new(rows, cols, d) == [rows |-> rows, cols |-> cols, data |-> d, den |-> 1]

\* The index get reads is inside the data.
in_bounds(a, r, c) == r * a.cols + c < Len(a.data)

Matrix_get(a, r, c) == a.data[r * a.cols + c + 1]

RECURSIVE SeqSum(_)
SeqSum(q) == IF q = <<>> THEN 0 ELSE Head(q) + SeqSum(Tail(q))

\* mult: the three loops run to a.rows and a.cols, b is read with its own
\* cols, and the product is labelled 4 x 4 whatever a and b are.
Matrix_mult(a, b) ==
  IF \E row \in 0..(a.rows - 1), col \in 0..(a.cols - 1), k \in 0..(a.rows - 1) :
       ~in_bounds(a, row, k) \/ ~in_bounds(b, k, col)
  THEN Panic
  ELSE [panic |-> FALSE,
        matrix |->
          [rows |-> 4, cols |-> 4, den |-> a.den * b.den,
           data |-> [n \in 1..(a.rows * a.cols) |->
                       SeqSum([k \in 1..a.rows |->
                                 Matrix_get(a, (n - 1) \div a.cols, k - 1)
                                   * Matrix_get(b, k - 1, (n - 1) % a.cols)])]]]

\* transpose: column after column, labelled 4 x 4.
Matrix_transpose(a) ==
  [rows |-> 4, cols |-> 4, den |-> a.den,
   data |-> [n \in 1..(a.cols * a.rows) |->
               Matrix_get(a, (n - 1) % a.rows, (n - 1) \div a.rows)]]

\* mult_4x4_by_1d with the rows and the columns of a exchanged.
Matrix_mult_4x4_by_1d_transposed(a, b) ==
  LET at(r) == Matrix_get(a, 0, r) * b.x + Matrix_get(a, 1, r) * b.y
                 + Matrix_get(a, 2, r) * b.z + Matrix_get(a, 3, r) * b.w
  IN Tuple_new(at(0), at(1), at(2), at(3))

Matrix_mult_4x4_by_1d(a, b) ==
  LET at(r) == Matrix_get(a, r, 0) * b.x + Matrix_get(a, r, 1) * b.y
                 + Matrix_get(a, r, 2) * b.z + Matrix_get(a, r, 3) * b.w
  IN Tuple_new(at(0), at(1), at(2), at(3))

\* identity(size) for the sizes it knows.
Matrix_identity_of(size) ==
  Matrix_new(size, size,
             [n \in 1..(size * size) |->
                IF (n - 1) \div size = (n - 1) % size THEN 1 ELSE 0])

\* submatrix for row < a.rows and col < a.cols, which is what determinant
\* and inverse hand it.
Matrix_submatrix(a, row, col) ==
  LET kept ==
        SelectSeq([n \in 1..(a.rows * a.cols) |-> n - 1],
                  LAMBDA n : n \div a.cols # row /\ n % a.cols # col)
  IN Matrix_new(a.rows - 1, a.cols - 1,
                [n \in 1..Len(kept) |->
                   Matrix_get(a, kept[n] \div a.cols, kept[n] % a.cols)])

RECURSIVE Matrix_determinant(_)
RECURSIVE Matrix_cofactor(_, _, _)

\* determinant: the formula of the 2 x 2 matrix, else the expansion along
\* row 0; a matrix without columns has the determinant 0.
Matrix_determinant(a) ==
  IF a.rows = 2
  THEN Matrix_get(a, 0, 0) * Matrix_get(a, 1, 1) - Matrix_get(a, 0, 1) * Matrix_get(a, 1, 0)
  ELSE SeqSum([i \in 1..a.cols |-> Matrix_cofactor(a, 0, i - 1) * Matrix_get(a, 0, i - 1)])

Matrix_cofactor(a, row, col) ==
  LET signed(minor) == IF (row + col) % 2 = 1 THEN 0 - minor ELSE minor
  IN With(Matrix_determinant(Matrix_submatrix(a, row, col)), signed)

\* invertible without the test of the determinant.
Matrix_invertible_always(a) == TRUE

Matrix_invertible(a) == Matrix_determinant(a) # 0

\* inverse: the cofactors over the determinant, then transpose.
Matrix_inverse(a) ==
  LET cofactors(d) ==
        [rows |-> a.rows, cols |-> a.cols, den |-> d,
         data |-> [n \in 1..(a.rows * a.cols) |->
                     Matrix_cofactor(a, (n - 1) \div a.cols, (n - 1) % a.cols)]]
      transposed(out) == [panic |-> FALSE, matrix |-> Matrix_transpose(out)]
      divided(d) == With(cofactors(d), transposed)
  IN IF ~Matrix_invertible(a) THEN Panic
     ELSE With(Matrix_determinant(a), divided)

\* --------------------------------------------------------------- Transform
MaxOps == 3        \* longest enumerated chain of builder calls

Transform_new == Matrix_identity_of(4)

\* The cosine and the sine of q quarter turns: the rotations of the model
\* are the ones that stay on the lattice.
cos(q) == <<0, 0 - 1, 0, 1>>[q]
sin(q) == <<1, 0, 0 - 1, 0>>[q]

\* A builder call: its name and its arguments.
Op(name, args) == [name |-> name, args |-> args]

\* The matrix a builder call makes of its arguments.
Op_matrix(op) ==
  LET v == op.args
  IN Matrix_new(4, 4,
       CASE op.name = "translate" ->
              <<1, 0, 0, v[1], 0, 1, 0, v[2], 0, 0, 1, v[3], 0, 0, 0, 1>>
         [] op.name = "scale" ->
              <<v[1], 0, 0, 0, 0, v[2], 0, 0, 0, 0, v[3], 0, 0, 0, 0, 1>>
         [] op.name = "rotate_x" ->
              <<1, 0, 0, 0, 0, cos(v[1]), 0 - sin(v[1]), 0,
                0, sin(v[1]), cos(v[1]), 0, 0, 0, 0, 1>>
         [] op.name = "rotate_y" ->
              <<cos(v[1]), 0, sin(v[1]), 0, 0, 1, 0, 0,
                0 - sin(v[1]), 0, cos(v[1]), 0, 0, 0, 0, 1>>
         [] op.name = "rotate_z" ->
              <<cos(v[1]), 0 - sin(v[1]), 0, 0, sin(v[1]), cos(v[1]), 0, 0,
                0, 0, 1, 0, 0, 0, 0, 1>>
         [] op.name = "shear" ->
              <<1, v[1], v[2], 0, v[3], 1, v[4], 0, v[5], v[6], 1, 0, 0, 0, 0, 1>>)

\* A builder call multiplying the matrix of the call by the accumulated one.
Transform_compose_left(transform, op_matrix) == Matrix_mult(op_matrix, transform).matrix

\* Every builder call: the accumulated matrix times the matrix of the call.
Transform_compose(transform, op_matrix) == Matrix_mult(transform, op_matrix).matrix

\* Ray::transform on a matrix as the program stores it.
Ray_transform_matrix(ray, transform) ==
  Ray_new(Matrix_mult_4x4_by_1d(transform, ray.origin),
          Matrix_mult_4x4_by_1d(transform, ray.direction))

\* ------------------------------------------ calls on matrices and builders
Ops ==
  { Op("translate", <<1, 0, 0>>), Op("translate", <<0, 2, 0 - 1>>),
    Op("scale", <<2, 2, 2>>), Op("scale", <<0 - 1, 1, 3>>), Op("scale", <<1, 0, 1>>),
    Op("rotate_x", <<1>>), Op("rotate_y", <<1>>), Op("rotate_z", <<3>>),
    Op("shear", <<1, 0, 0, 0, 0, 0>>), Op("shear", <<0, 0, 0, 2, 1, 0>>) }

\* Matrices handed to Matrix::new: every 2 x 2 matrix over a few entries,
\* the 3 x 3 and 4 x 4 matrices of the tests, and the upper left 3 x 3 part
\* of the matrix of every builder call.
GivenMatrices ==
  {Matrix_new(2, 2, <<a, b, c, d>>) :
     a \in {0 - 3, 1, 2}, b \in {0, 5}, c \in {0 - 3, 0, 1}, d \in {0, 2}}
  \cup {Matrix_submatrix(Op_matrix(op), 3, 3) : op \in Ops}
  \cup { Matrix_new(3, 3, <<1, 2, 6, 0 - 5, 8, 0 - 4, 2, 6, 4>>),
         Matrix_new(3, 3, <<3, 5, 0, 2, 0 - 1, 0 - 7, 6, 0 - 1, 5>>),
         Matrix_new(3, 3, <<1, 2, 3, 2, 4, 6, 0, 1, 1>>),
         Matrix_new(4, 4, <<6, 4, 4, 4, 5, 5, 7, 6, 4, 0 - 9, 3, 0 - 7, 9, 1, 7, 0 - 6>>),
         Matrix_new(4, 4, <<0 - 4, 2, 0 - 2, 0 - 3, 9, 6, 2, 6, 0, 0 - 5, 1, 0 - 5, 0, 0, 0, 0>>),
         Matrix_new(4, 4, <<0 - 5, 2, 6, 0 - 8, 1, 0 - 5, 1, 8, 7, 7, 0 - 6, 0 - 7, 1, 0 - 3, 7, 4>>) }

MatrixRays ==
  { Ray_new(point(1, 0, 1), vector(0, 1, 0)),
    Ray_new(point(2, 3, 4), vector(1, 0 - 1, 2)) }

NoResult == [panic |-> FALSE]

\* Transform::new(), or a matrix from Matrix::new.
InitMatrix ==
  /\ IdlePure
  /\ IdleHit
  /\ IdleColor
  /\ IdleRender
  /\ IdleShape
  /\ world = NoWorld
  /\ mops = <<>>
  /\ mout = NoResult
  /\ \/ /\ mat = Transform_new
        /\ marg \in MatrixRays
        /\ mpc = "built"
     \/ /\ mat \in GivenMatrices
        /\ marg = Ray_new(point(1, 0, 1), vector(0, 1, 0))
        /\ mpc = "given"
  /\ mrecv = mat

\* A builder call that overwrites its receiver.
Build_in_place(op) ==
  /\ mpc = "built"
  /\ Len(mops) < MaxOps
  /\ mat' = Transform_compose(mat, Op_matrix(op))
  /\ mrecv' = mat'
  /\ mops' = Append(mops, op)
  /\ UNCHANGED <<marg, mout, mpc>>
  /\ UNCHANGED <<hitVars, world, colorVars, renderVars, shapeVars, pureVars>>

\* translate, scale, rotate_x, rotate_y, rotate_z or shear on the builder.
Build(op) ==
  /\ mpc = "built"
  /\ Len(mops) < MaxOps
  /\ mat' = Transform_compose(mat, Op_matrix(op))
  /\ mrecv' = mat
  /\ mops' = Append(mops, op)
  /\ UNCHANGED <<marg, mout, mpc>>
  /\ UNCHANGED <<hitVars, world, colorVars, renderVars, shapeVars, pureVars>>

\* Matrix::inverse(&mat).
InverseCall ==
  /\ mpc \in {"built", "given"}
  /\ mout' = Matrix_inverse(mat)
  /\ mpc' = "inverted"
  /\ UNCHANGED <<mat, mrecv, mops, marg>>
  /\ UNCHANGED <<hitVars, world, colorVars, renderVars, shapeVars, pureVars>>

\* Matrix::mult(&mat, &inverse).
ProductCall ==
  /\ mpc = "inverted"
  /\ ~mout.panic
  /\ mout' = Matrix_mult(mat, mout.matrix)
  /\ mpc' = "multiplied"
  /\ UNCHANGED <<mat, mrecv, mops, marg>>
  /\ UNCHANGED <<hitVars, world, colorVars, renderVars, shapeVars, pureVars>>

\* Matrix::mult_4x4_by_1d(&mat, &tuple) on the origin or the direction.
ApplyCall(tuple) ==
  /\ mpc = "built"
  /\ mout' = [panic |-> FALSE, of |-> tuple, tuple |-> Matrix_mult_4x4_by_1d(mat, tuple)]
  /\ mpc' = "applied"
  /\ UNCHANGED <<mat, mrecv, mops, marg>>
  /\ UNCHANGED <<hitVars, world, colorVars, renderVars, shapeVars, pureVars>>

\* ray.transform(&mat).
RayTransformCall ==
  /\ mpc = "built"
  /\ mout' = [panic |-> FALSE, ray |-> Ray_transform_matrix(marg, mat)]
  /\ mpc' = "transformed"
  /\ UNCHANGED <<mat, mrecv, mops, marg>>
  /\ UNCHANGED <<hitVars, world, colorVars, renderVars, shapeVars, pureVars>>

NextMatrix ==
  \/ \E op \in Ops : Build(op)
  \/ InverseCall
  \/ ProductCall
  \/ \E tuple \in {marg.origin, marg.direction} : ApplyCall(tuple)
  \/ RayTransformCall

SpecMatrix == InitMatrix /\ [][NextMatrix]_vars

\* The transforms of the shading model, kept as the pair of s and t, are the
\* matrices of the chains translate(t).scale(s, s, s): same determinant, and
\* the inverse applied to a tuple gives den times the tuple either way.
TransformAgrees ==
  (/\ Len(mops) = 2
   /\ mops[1].name = "translate"
   /\ mops[2].name = "scale"
   /\ mops[2].args[1] = mops[2].args[2]
   /\ mops[2].args[2] = mops[2].args[3]) =>
    LET a == Transform_of(mops[2].args[1], vector(mops[1].args[1], mops[1].args[2], mops[1].args[3]))
    IN /\ Matrix_determinant(mat) = determinant(a)
       /\ (mpc = "inverted" /\ ~mout.panic) =>
            /\ ~inverse(a).panic
            /\ \A b \in {marg.origin, marg.direction} :
                 Tuple_mult(Matrix_mult_4x4_by_1d(mout.matrix, b), inverse(a).den)
                   = Tuple_mult(mult_4x4_by_1d(inverse(a), b), mout.matrix.den)

\* -------------------------------------------------------- claims: matrices
\* The determinant by expansion along the first row, down to the 1 x 1
\* matrix.
RECURSIVE Det(_)
Det(a) ==
  IF a.rows = 1 THEN Matrix_get(a, 0, 0)
  ELSE SeqSum([i \in 1..a.cols |->
                 (IF i % 2 = 1 THEN 1 ELSE 0 - 1) * Matrix_get(a, 0, i - 1)
                   * Det(Matrix_submatrix(a, 0, i - 1))])

Cof(a, row, col) ==
  (IF (row + col) % 2 = 0 THEN 1 ELSE 0 - 1) * Det(Matrix_submatrix(a, row, col))

\* C12: inverse panics exactly when the determinant of its argument is 0 and
\* returns a matrix otherwise; invertible is true iff the determinant is not
\* 0.
C12_InversePanicsIffSingular ==
  mpc = "inverted" =>
    /\ mout.panic <=> Matrix_determinant(mat) = 0
    /\ mout.panic <=> Det(mat) = 0
    /\ Matrix_invertible(mat) <=> Matrix_determinant(mat) # 0
    /\ ~mout.panic => Len(mout.matrix.data) = mat.rows * mat.cols

\* inverse has panicked on the matrix of a builder chain that holds a
\* scaling by 0.
C12_Witness ==
  /\ mpc = "inverted"
  /\ mout.panic
  /\ Len(mops) = 2
  /\ mops[2].name = "scale"
  /\ mat # Matrix_new(4, 4, [n \in 1..16 |-> 0])

\* The call alone on the points it is given.
Applied(op, p) ==
  Matrix_mult_4x4_by_1d(Transform_compose(Transform_new, Op_matrix(op)), p)

\* The calls of a chain applied one after the other, the last call first.
RECURSIVE AppliedLastFirst(_, _)
AppliedLastFirst(ops, p) ==
  IF ops = <<>> THEN p ELSE Applied(Head(ops), AppliedLastFirst(Tail(ops), p))

\* C16 as stated: the matrix of Transform::new().op1(..).op2(..) takes a
\* point p to op2(op1(p)).
C16_WrittenOrder ==
  (mpc = "applied" /\ Len(mops) = 2) =>
    mout.tuple = Applied(mops[2], Applied(mops[1], mout.of))

\* C16, amended: the last call of a builder chain is the innermost, the
\* matrix of Transform::new().op1(..).op2(..) takes a point p to op1(op2(p)).
C16_ReverseOrder ==
  mpc = "applied" =>
    /\ mout.tuple = AppliedLastFirst(mops, mout.of)
    /\ Len(mops) = 2 => mout.tuple = Applied(mops[1], Applied(mops[2], mout.of))

\* translate(1, 0, 0).scale(2, 2, 2) has scaled the point (1, 0, 1) and
\* then translated it; the written order would give (4, 0, 2).
C16_Witness ==
  /\ mpc = "applied"
  /\ mops = <<Op("translate", <<1, 0, 0>>), Op("scale", <<2, 2, 2>>)>>
  /\ mout.of = point(1, 0, 1)
  /\ mout.tuple = point(3, 0, 2)
  /\ Applied(mops[2], Applied(mops[1], mout.of)) = point(4, 0, 2)

LastRow(a) == <<Matrix_get(a, 3, 0), Matrix_get(a, 3, 1), Matrix_get(a, 3, 2), Matrix_get(a, 3, 3)>>

\* C17: the matrix of every builder chain has the last row 0 0 0 1, and
\* mult_4x4_by_1d with it gives a point for a point and a vector for a
\* vector; Ray::transform keeps the origin a point and the direction a
\* vector.
C17_AffinePreservesW ==
  /\ mpc \in {"built", "applied", "transformed"} => LastRow(mat) = <<0, 0, 0, 1>>
  /\ mpc = "applied" => mout.tuple.w = mout.of.w
  /\ mpc = "transformed" =>
       /\ marg.origin.w = 1 /\ mout.ray.origin.w = 1
       /\ marg.direction.w = 0 /\ mout.ray.direction.w = 0

\* A ray transformed by a translation and a shear: origin and direction have
\* moved and kept their w.
C17_Witness ==
  /\ mpc = "transformed"
  /\ Len(mops) = 2
  /\ mops[1].name = "translate"
  /\ mops[2].name = "shear"
  /\ mout.ray.origin # marg.origin
  /\ mout.ray.direction # marg.direction
  /\ mout.ray.origin.w = 1
  /\ mout.ray.direction.w = 0

\* C18: for an invertible n x n matrix M, n in {2, 3, 4}, inverse(M) has n
\* rows, n columns and n * n entries, its entry (r, c) is the cofactor (c, r)
\* of M over the determinant of M, and mult(M, inverse(M)) is the n x n
\* identity.
C18_TrueInverse ==
  /\ (mpc = "inverted" /\ ~mout.panic /\ mat.rows \in 2..4) =>
       /\ mout.matrix.rows = mat.rows
       /\ mout.matrix.cols = mat.cols
       /\ Len(mout.matrix.data) = mat.rows * mat.cols
       /\ \A r, c \in 0..(mat.rows - 1) :
            mout.matrix.data[r * mat.rows + c + 1] * Det(mat)
              = mout.matrix.den * Cof(mat, c, r)
  /\ mpc = "multiplied" =>
       /\ ~mout.panic
       /\ mout.matrix.rows = mat.rows
       /\ mout.matrix.cols = mat.cols
       /\ mout.matrix.data
            = [n \in 1..(mat.rows * mat.cols) |->
                 mout.matrix.den * Matrix_identity_of(mat.rows).data[n]]

\* ------------------------------------------------ claims: the builder
\* C28: every builder call leaves the matrix of its receiver unchanged and
\* returns a Transform whose matrix is (receiver matrix) x (operation
\* matrix); so the matrix of a chain applied to a point is the last call
\* applied first, Transform::new().translate(..).scale(..).rotate_x(..)
\* rotates, then scales, then translates.
C28_ImmutableRightMultiply ==
  [][ \A op \in Ops :
        (mpc = "built" /\ mops' = Append(mops, op)) =>
          /\ mrecv' = mat
          /\ mat' = Matrix_mult(mat, Op_matrix(op)).matrix
          /\ \A p \in {marg.origin, marg.direction} :
               /\ Matrix_mult_4x4_by_1d(mat', p)
                    = Matrix_mult_4x4_by_1d(mat, Applied(op, p))
               /\ Len(mops') = 3 =>
                    Matrix_mult_4x4_by_1d(mat', p)
                      = Applied(mops'[1], Applied(mops'[2], Applied(mops'[3], p))) ]_vars

\* translate(1, 0, 0).scale(2, 2, 2).rotate_x(quarter turn) built from a
\* receiver that still holds translate(1, 0, 0).scale(2, 2, 2): the point
\* (1, 0, 1) is rotated to (1, -1, 0), scaled to (2, -2, 0) and translated
\* to (3, -2, 0).
C28_Witness ==
  /\ mpc = "built"
  /\ mops = <<Op("translate", <<1, 0, 0>>), Op("scale", <<2, 2, 2>>), Op("rotate_x", <<1>>)>>
  /\ mrecv = Matrix_mult(Matrix_mult(Transform_new, Op_matrix(mops[1])).matrix,
                         Op_matrix(mops[2])).matrix
  /\ mrecv # mat
  /\ Matrix_mult_4x4_by_1d(mat, point(1, 0, 1)) = point(3, 0 - 2, 0)

\* --------------------------------------- calls of lighting and pattern_at
MaxCoord == 9     \* largest coordinate, in quarters, of an enumerated pattern point

Axes == {vector(0, 0, 1), vector(0, 0, 0 - 1), vector(0, 1, 0), vector(0, 0 - 1, 0)}

LitMaterials ==
  { Material_of(RED, 1, 2, 1, 0, 0, VACUUM, NoPattern),
    Material_of(WHITE, 2, 1, 3, 0, 0, VACUUM, NoPattern),
    Material_of(RED, 1, 1, 1, 0, 0, VACUUM,
                Pattern_new("Stripe", GREEN, BLUE, Transform_of(1, vector(0, 0, 0)))) }

LitLights ==
  {PointLight_new(Tuple_add(point(0, 0, 0), Tuple_mult(a, 10 * UNIT)), i) :
     a \in Axes, i \in {WHITE, Color_new(2, 1, 1)}}

LightingCalls ==
  {[name |-> "lighting", m |-> m,
    o |-> Shape_of("Sphere", 1, Transform_of(1, vector(0, 0, 0)), m),
    l |-> l, position |-> point(0, 0, 0), eyev |-> eyev, normalv |-> normalv,
    is_in_shadow |-> is_in_shadow] :
     m \in LitMaterials, l \in LitLights, eyev \in Axes, normalv \in Axes,
     is_in_shadow \in BOOLEAN}

Coords == (0 - MaxCoord)..MaxCoord

PatternCalls ==
  {[name |-> "pattern_at",
    pattern |-> Pattern_new(pattern_type, WHITE, BLACK, Transform_of(1, vector(0, 0, 0))),
    point |-> point(x, y, z)] :
     pattern_type \in {"Stripe", "Checker"}, x \in Coords, y \in Coords, z \in Coords}

InitPure ==
  /\ IdleHit
  /\ IdleColor
  /\ IdleRender
  /\ IdleShape
  /\ IdleMatrix
  /\ world = NoWorld
  /\ pcall \in LightingCalls \cup PatternCalls
  /\ pout = [panic |-> FALSE]
  /\ ppc = "input"

\* lighting(m, o, l, position, eyev, normalv, is_in_shadow).
LightingCall ==
  /\ ppc = "input"
  /\ pcall.name = "lighting"
  /\ pout' = lighting(pcall.m, pcall.o, pcall.l, pcall.position, pcall.eyev,
                      pcall.normalv, pcall.is_in_shadow)
  /\ ppc' = "done"
  /\ UNCHANGED pcall
  /\ UNCHANGED <<hitVars, world, colorVars, renderVars, shapeVars, matrixVars>>

\* pattern.pattern_at(point).
PatternAtCall ==
  /\ ppc = "input"
  /\ pcall.name = "pattern_at"
  /\ pout' = [panic |-> FALSE, color |-> pattern_at(pcall.pattern, pcall.point)]
  /\ ppc' = "done"
  /\ UNCHANGED pcall
  /\ UNCHANGED <<hitVars, world, colorVars, renderVars, shapeVars, matrixVars>>

NextPure == LightingCall \/ PatternAtCall

SpecPure == InitPure /\ [][NextPure]_vars

\* ------------------------------------------------------ claims: lighting
Lit == ppc = "done" /\ pcall.name = "lighting"

\* The base colour: the pattern's colour at the point, or the material's.
BaseColor ==
  IF pcall.m.pattern.some
  THEN pattern_at_object(pcall.m.pattern, pcall.o, pcall.position).color
  ELSE pcall.m.color

AmbientTerm == Color_mult(Color_dot(BaseColor, pcall.l.intensity), pcall.m.ambient)

LightDotNormal ==
  dot(Tuple_norm(Tuple_sub(pcall.l.position, pcall.position)), pcall.normalv)

\* C24: lighting with in_shadow = true returns the ambient term alone (base
\* colour times light intensity channel by channel, times material.ambient)
\* for every light position, eye vector and normal; so it does with
\* in_shadow = false and the light behind the surface.
C24_AmbientOnly ==
  (Lit /\ (pcall.is_in_shadow \/ LightDotNormal < 0)) =>
    pout = [panic |-> FALSE, color |-> AmbientTerm]

\* In shadow, with the light before the surface and the eye in the path of
\* the reflection: out of shadow the diffuse and specular terms would add
\* to the colour.
C24_Witness ==
  /\ Lit
  /\ pcall.is_in_shadow
  /\ LightDotNormal > 0
  /\ pcall.eyev = pcall.normalv
  /\ pout.color = AmbientTerm
  /\ lighting(pcall.m, pcall.o, pcall.l, pcall.position, pcall.eyev, pcall.normalv,
              FALSE).color # AmbientTerm

\* The light behind the surface of a point out of shadow.
C24_LightBehind ==
  /\ Lit
  /\ ~pcall.is_in_shadow
  /\ LightDotNormal < 0
  /\ pout.color = AmbientTerm

\* ------------------------------------------------------ claims: patterns
\* floor of the coordinate n / UNIT.
Floor(n) == IF n >= 0 THEN n \div UNIT ELSE 0 - ((UNIT - 1 - n) \div UNIT)

PatternDone(pattern_type) ==
  ppc = "done" /\ pcall.name = "pattern_at" /\ pcall.pattern.pattern_type = pattern_type

\* C29: the stripe pattern alternates by floor(x) mod 2 for every x,
\* negative included: colour A where floor(x) is even and colour B where
\* it is odd, whatever y and z.
C29_StripeByFloor ==
  PatternDone("Stripe") =>
    pout.color = IF Floor(pcall.point.x) % 2 = 0 THEN pcall.pattern.a ELSE pcall.pattern.b

\* C30: the checker pattern alternates by (floor(x) + floor(y) + floor(z))
\* mod 2: colour A where the sum is even and colour B where it is odd.
C30_CheckerByFloors ==
  PatternDone("Checker") =>
    pout.color = IF (Floor(pcall.point.x) + Floor(pcall.point.y) + Floor(pcall.point.z)) % 2 = 0
                 THEN pcall.pattern.a
                 ELSE pcall.pattern.b

=============================================================================
